---------------------------- MODULE Spec2Model ----------------------------
(***************************************************************************)
(* Model of the world service of mmorp-server                              *)
(* (src/internal/app/world/service.go): the session registry, the command  *)
(* handlers join / move / attack, the tick loop with the mob AI, the       *)
(* broadcaster and Start / Stop.                                           *)
(*                                                                         *)
(* Coordinates are float64 in the code.  The model keeps them in fixed     *)
(* point, 1000 units per tile ("milli-tiles"): 0.35 is 350, 0.2 is 200.    *)
(* A quotient is truncated toward zero to the next milli-tile.             *)
(*                                                                         *)
(* Every goroutine of the code is a process of the model.  What a process  *)
(* still has to run of the function it is in is the sequence todo[p] of    *)
(* micro-operations: one per lock release, per channel send, per channel   *)
(* close, per collaborator call and per re-acquisition of the lock.  One   *)
(* action of the model runs one critical section or one micro-operation.   *)
(***************************************************************************)
EXTENDS Integers, Sequences, FiniteSets, TLC

\* ------------------------------------------------------------------ constants
playerMoveSpeed == 350
playerCollisionRadius == 200
playerAttackRange == 1300
basePlayerDamage == 20
mobAggroRange == 6000
mobAttackRange == 1100
mobMoveSpeed == 180
\* a cooldown one tick shorter
shortCooldownTicks == 7 - 1
mobAttackCooldownTicks == 7
mobRespawnTicks == 50
mobWanderMaxTicks == 20
\* 0.7 * mobMoveSpeed, the length of a wander step (service.go:456)
wanderSpeed == 126
\* capacity of Client.Send (service.go:185)
SendCap == 128
\* player hp at join (service.go:234)
JoinHP == 100
\* experience for a kill (service.go:354)
KillXP == 25

\* uuid.Nil
Nil == "nil"

\* ------------------------------------------------------------------ bounds
\* command messages handled in one run, over all sessions
MaxCmds == 3
\* ticks of the tick loop in one run
MaxTick == 2

\* the sessions (connections), the goroutines of the tick loop and the
\* goroutine that calls Start and Stop.  Every Start that finds the service
\* not started launches a goroutine (service.go:147); a Stop that succeeds
\* closes s.quit, which a second one cannot do again, so a run launches at
\* most two.
Sessions == {"s1", "s2"}
TickProc == "tick"
TickProcs == {TickProc, "tick2"}
MainProc == "main"
Procs == Sessions \cup TickProcs \cup {MainProc}
NoProc == ""

\* character ids the character service can resolve
Chars == {"c1", "c2"}

\* ------------------------------------------------------------------ arithmetic
\* integer quotient truncated toward zero, as a float rounded to milli-tiles
Quot(a, b) == IF a >= 0 THEN a \div b ELSE -((-a) \div b)

RECURSIVE SqrtBetween(_, _, _)
SqrtBetween(n, lo, hi) ==
    IF lo >= hi THEN lo
    ELSE LET mid == (lo + hi + 1) \div 2
         IN IF mid * mid <= n THEN SqrtBetween(n, mid, hi)
                              ELSE SqrtBetween(n, lo, mid - 1)

\* floor of the square root
ISqrt(n) == SqrtBetween(n, 0, 40000)

\* math.Hypot, in milli-tiles
Hypot(dx, dy) == ISqrt(dx * dx + dy * dy)

\* distance(ax, ay, bx, by) <= r, decided exactly on the squares
DistLeq(ax, ay, bx, by, r) ==
    (ax - bx) * (ax - bx) + (ay - by) * (ay - by) <= r * r

\* the square of distance(ax, ay, bx, by): the order of distances
Dist2(ax, ay, bx, by) == (ax - bx) * (ax - bx) + (ay - by) * (ay - by)

\* ------------------------------------------------------------------ the map
\* The map description the world is constructed from (MapJSON): a walled
\* room of 7 x 5 tiles with one water tile.
MapRows ==
    << <<"#", "#", "#", "#", "#", "#", "#">>,
       <<"#", ".", ".", ".", ".", "~", "#">>,
       <<"#", ".", ".", ".", ".", ".", "#">>,
       <<"#", ".", "^", ".", ".", ".", "#">>,
       <<"#", "#", "#", "#", "#", "#", "#">> >>

MapWidth == Len(MapRows[1])
MapHeight == Len(MapRows)
MapSpawn == [X |-> 2500, Y |-> 2500]

\* loadWorldMap: rune -> tile kind
TileOfRune(r) ==
    CASE r = "." -> "grass"
      [] r = "~" -> "water"
      [] r = "#" -> "wall"
      [] r = "^" -> "forest"

\* tileAt: outside the grid is wall
tileAt(x, y) ==
    IF x < 0 \/ y < 0 THEN "wall"
    ELSE LET tx == x \div 1000
             ty == y \div 1000
         IN IF tx < 0 \/ tx >= MapWidth \/ ty < 0 \/ ty >= MapHeight
            THEN "wall"
            ELSE TileOfRune(MapRows[ty + 1][tx + 1])

isWalkableWithRadius(x, y, radius) ==
    \A c \in { <<x, y>>, <<x - radius, y>>, <<x + radius, y>>,
               <<x, y - radius>>, <<x, y + radius>> } :
        tileAt(c[1], c[2]) \notin {"wall", "water"}

isWalkable(x, y) == isWalkableWithRadius(x, y, 0)

\* ------------------------------------------------------------------ players
\* Join, lines 217-226: the persisted position, else the map's spawn point,
\* else (1.5, 1.5)
JoinPosition(posX, posY) ==
    LET sx == IF posX <= 0 /\ posY <= 0 THEN MapSpawn.X ELSE posX
        sy == IF posX <= 0 /\ posY <= 0 THEN MapSpawn.Y ELSE posY
    IN IF ~isWalkable(sx, sy) THEN <<1500, 1500>> ELSE <<sx, sy>>

\* Join, lines 229-240: the player a join constructs.  by is the session
\* that constructed it and kills the number of mobs it has killed since
\* (history, not fields of the code).
NewPlayer(c, id, posX, posY) ==
    LET p == JoinPosition(posX, posY)
    IN [ID |-> id, X |-> p[1], Y |-> p[2], HP |-> JoinHP, MaxHP |-> JoinHP,
        Level |-> 1, Experience |-> 0, by |-> c, kills |-> 0]

\* Move, lines 272-278: the step of an intent vector (dx, dy)
MoveStep(dx, dy) ==
    LET norm == Hypot(dx, dy)
        ndx == IF norm > 1000 THEN Quot(dx * 1000, norm) ELSE dx
        ndy == IF norm > 1000 THEN Quot(dy * 1000, norm) ELSE dy
    IN <<Quot(ndx * playerMoveSpeed, 1000), Quot(ndy * playerMoveSpeed, 1000)>>

\* a move that stops dead when its X step is blocked
MovePlayerStop(st, dx, dy) ==
    LET step == MoveStep(dx, dy)
    IN IF isWalkableWithRadius(st.X + step[1], st.Y, playerCollisionRadius)
       THEN IF isWalkableWithRadius(st.X + step[1], st.Y + step[2], playerCollisionRadius)
            THEN [st EXCEPT !.X = st.X + step[1], !.Y = st.Y + step[2]]
            ELSE [st EXCEPT !.X = st.X + step[1]]
       ELSE st

\* Move, lines 287-296: the X-then-Y slide
MovePlayer(st, dx, dy) ==
    LET step == MoveStep(dx, dy)
        x1 == IF isWalkableWithRadius(st.X + step[1], st.Y, playerCollisionRadius)
              THEN st.X + step[1] ELSE st.X
        y1 == IF isWalkableWithRadius(x1, st.Y + step[2], playerCollisionRadius)
              THEN st.Y + step[2] ELSE st.Y
    IN [st EXCEPT !.X = x1, !.Y = y1]

\* a level-up loop that waits for the experience to exceed the threshold
RECURSIVE LevelUpStrict(_)
LevelUpStrict(st) ==
    IF st.Experience > st.Level * 100
    THEN LevelUpStrict([st EXCEPT !.Experience = st.Experience - st.Level * 100,
                                  !.Level = st.Level + 1,
                                  !.MaxHP = st.MaxHP + 20,
                                  !.HP = st.MaxHP + 20])
    ELSE st

\* Attack, lines 354-360: the experience of a kill and the level-up loop
RECURSIVE LevelUp(_)
LevelUp(st) ==
    IF st.Experience >= st.Level * 100
    THEN LevelUp([st EXCEPT !.Experience = st.Experience - st.Level * 100,
                            !.Level = st.Level + 1,
                            !.MaxHP = st.MaxHP + 20,
                            !.HP = st.MaxHP + 20])
    ELSE st

GrantKill(st) == LevelUp([st EXCEPT !.Experience = st.Experience + KillXP])

\* the runtime of the attacker after a kill, with its history
Killed(st) == [GrantKill(st) EXCEPT !.kills = st.kills + 1]

\* ------------------------------------------------------------------ frames
\* A serialized frame.  a, b, x, y, n and mobs are its payload; src and ord
\* are history: the process that marshalled it and the place of the frame in
\* that process's run (tick or command number, then the index in it).
NoMobs == [m \in {} |-> 0]
Frame(type, a, b, x, y, n) ==
    [type |-> type, a |-> a, b |-> b, x |-> x, y |-> y, n |-> n,
     mobs |-> NoMobs, ps |-> {}, src |-> "", ord |-> <<0, 0>>]

Stamp(f, p, major, idx) == [f EXCEPT !.src = p, !.ord = <<major, idx>>]

\* ------------------------------------------------------------------ mobs
\* NewService, lines 110-118, on the mobs of loadWorldMap, lines 670-697
NewMob(mj) ==
    LET hp == IF mj.HP <= 0 THEN 60 ELSE mj.HP
        dmg == IF mj.Damage <= 0 THEN 8 ELSE mj.Damage
        patrol == IF mj.PatrolRadius <= 0 THEN 5000 ELSE mj.PatrolRadius
    IN [X |-> mj.X, Y |-> mj.Y, HP |-> hp, MaxHP |-> hp, Damage |-> dmg,
        PatrolRadius |-> patrol, Alive |-> TRUE,
        SpawnX |-> mj.X, SpawnY |-> mj.Y,
        AttackCooldown |-> 0, RespawnCounter |-> 0,
        WanderDX |-> 0, WanderDY |-> 0, WanderTicksRemain |-> 0]

\* the MobState a frame carries
MobView(mob) == [X |-> mob.X, Y |-> mob.Y, HP |-> mob.HP, Alive |-> mob.Alive]

\* mobStatesLocked
mobStatesLocked(ms) == [m \in DOMAIN ms |-> MobView(ms[m])]

withinPatrol(mob, x, y) ==
    DistLeq(mob.SpawnX, mob.SpawnY, x, y, mob.PatrolRadius)

\* a chase that forgets the leash of the mob
moveMobTowardsFree(mob, x, y) ==
    LET dx == x - mob.X
        dy == y - mob.Y
        n == Hypot(dx, dy)
    IN IF n < 1 THEN mob
       ELSE LET nx == mob.X + Quot(dx * mobMoveSpeed, n)
                ny == mob.Y + Quot(dy * mobMoveSpeed, n)
            IN IF isWalkableWithRadius(nx, ny, 200)
               THEN [mob EXCEPT !.X = nx, !.Y = ny]
               ELSE mob

moveMobTowardsLocked(mob, x, y) ==
    LET dx == x - mob.X
        dy == y - mob.Y
        n == Hypot(dx, dy)
    IN IF n < 1 THEN mob
       ELSE LET nx == mob.X + Quot(dx * mobMoveSpeed, n)
                ny == mob.Y + Quot(dy * mobMoveSpeed, n)
            IN IF withinPatrol(mob, nx, ny) /\ isWalkableWithRadius(nx, ny, 200)
               THEN [mob EXCEPT !.X = nx, !.Y = ny]
               ELSE mob

\* a wander that keeps its heading when it is blocked
wanderMobStubborn(mob, rnd) ==
    LET m1 == IF mob.WanderTicksRemain <= 0
              THEN [mob EXCEPT !.WanderDX = rnd[1][1], !.WanderDY = rnd[1][2],
                               !.WanderTicksRemain = 5 + rnd[2]]
              ELSE mob
        m2 == [m1 EXCEPT !.WanderTicksRemain = m1.WanderTicksRemain - 1]
        nx == m2.X + m2.WanderDX
        ny == m2.Y + m2.WanderDY
    IN IF ~withinPatrol(m2, nx, ny) \/ ~isWalkableWithRadius(nx, ny, 200)
       THEN m2
       ELSE [m2 EXCEPT !.X = nx, !.Y = ny]

\* a wander that takes the spawn point of the mob along
wanderMobHoming(mob, rnd) ==
    LET m1 == IF mob.WanderTicksRemain <= 0
              THEN [mob EXCEPT !.WanderDX = rnd[1][1], !.WanderDY = rnd[1][2],
                               !.WanderTicksRemain = 5 + rnd[2]]
              ELSE mob
        m2 == [m1 EXCEPT !.WanderTicksRemain = m1.WanderTicksRemain - 1]
        nx == m2.X + m2.WanderDX
        ny == m2.Y + m2.WanderDY
    IN IF ~withinPatrol(m2, nx, ny) \/ ~isWalkableWithRadius(nx, ny, 200)
       THEN [m2 EXCEPT !.WanderTicksRemain = 0]
       ELSE [m2 EXCEPT !.X = nx, !.Y = ny, !.SpawnX = nx, !.SpawnY = ny]

\* wanderMobLocked; rnd = <<vector of the random heading, s.rand.Intn(20)>>
wanderMobLocked(mob, rnd) ==
    LET m1 == IF mob.WanderTicksRemain <= 0
              THEN [mob EXCEPT !.WanderDX = rnd[1][1], !.WanderDY = rnd[1][2],
                               !.WanderTicksRemain = 5 + rnd[2]]
              ELSE mob
        m2 == [m1 EXCEPT !.WanderTicksRemain = m1.WanderTicksRemain - 1]
        nx == m2.X + m2.WanderDX
        ny == m2.Y + m2.WanderDY
    IN IF ~withinPatrol(m2, nx, ny) \/ ~isWalkableWithRadius(nx, ny, 200)
       THEN [m2 EXCEPT !.WanderTicksRemain = 0]
       ELSE [m2 EXCEPT !.X = nx, !.Y = ny]

\* a mob attack that leaves the dead player where it fell
applyMobAttackInPlace(mid, mob, pr) ==
    LET combat == Frame("combat", mid, pr.ID, 0, 0, mob.Damage)
        hp == pr.HP - mob.Damage
    IN IF hp > 0
       THEN [pr |-> [pr EXCEPT !.HP = hp], events |-> <<combat>>]
       ELSE LET p2 == [pr EXCEPT !.HP = pr.MaxHP]
            IN [pr |-> p2,
                events |-> <<combat,
                             Frame("player_died", pr.ID, "", 0, 0, 0),
                             Frame("player_moved", pr.ID, "", p2.X, p2.Y, 0)>>]

\* applyMobAttackLocked: the player after the attack and the events
applyMobAttackLocked(mid, mob, pr) ==
    LET combat == Frame("combat", mid, pr.ID, 0, 0, mob.Damage)
        hp == pr.HP - mob.Damage
    IN IF hp > 0
       THEN [pr |-> [pr EXCEPT !.HP = hp], events |-> <<combat>>]
       ELSE LET p2 == [pr EXCEPT !.HP = pr.MaxHP, !.X = MapSpawn.X, !.Y = MapSpawn.Y]
            IN [pr |-> p2,
                events |-> <<combat,
                             Frame("player_died", pr.ID, "", 0, 0, 0),
                             Frame("player_moved", pr.ID, "", p2.X, p2.Y, 0)>>]

\* closestPlayerInRangeLocked.  The code ranges over the map s.players in
\* an order Go leaves open and keeps the first of the closest players; pref
\* is that order.  The result is a character id, or Nil.
closestPlayerInRangeLocked(tbl, hp, x, y, rng, pref) ==
    LET cand == {k \in DOMAIN tbl :
                    /\ hp[tbl[k]].HP > 0
                    /\ DistLeq(x, y, hp[tbl[k]].X, hp[tbl[k]].Y, rng)}
        best == {k \in cand : \A j \in cand :
                    Dist2(x, y, hp[tbl[k]].X, hp[tbl[k]].Y)
                      <= Dist2(x, y, hp[tbl[j]].X, hp[tbl[j]].Y)}
        first == {i \in 1..Len(pref) : pref[i] \in best}
    IN IF best = {} THEN Nil
       ELSE pref[CHOOSE i \in first : \A j \in first : i <= j]

\* a dead mob that looks at its counter before it counts down
respawnMobLate(mid, mob) ==
    IF mob.RespawnCounter = 0
    THEN [mob |-> [mob EXCEPT !.Alive = TRUE, !.HP = mob.MaxHP,
                              !.X = mob.SpawnX, !.Y = mob.SpawnY],
          events |-> <<Frame("broadcast", mid, "respawned", 0, 0, 0)>>]
    ELSE [mob |-> [mob EXCEPT !.RespawnCounter = mob.RespawnCounter - 1],
          events |-> <<>>]

\* stepMobsLocked, lines 389-406: a dead mob
respawnMob(mid, mob) ==
    LET m1 == IF mob.RespawnCounter > 0
              THEN [mob EXCEPT !.RespawnCounter = mob.RespawnCounter - 1]
              ELSE mob
    IN IF m1.RespawnCounter = 0
       THEN [mob |-> [m1 EXCEPT !.Alive = TRUE, !.HP = m1.MaxHP,
                                !.X = m1.SpawnX, !.Y = m1.SpawnY],
             events |-> <<Frame("broadcast", mid, "respawned", 0, 0, 0)>>]
       ELSE [mob |-> m1, events |-> <<>>]

\* One mob of the loop of stepMobsLocked, lines 388-432
stepMob(mid, mob, tbl, hp, rnd, pref) ==
    IF ~mob.Alive
    THEN [mob |-> respawnMob(mid, mob).mob, heap |-> hp,
          events |-> respawnMob(mid, mob).events]
    ELSE LET t == closestPlayerInRangeLocked(tbl, hp, mob.X, mob.Y, mobAggroRange, pref)
             cool == IF mob.AttackCooldown > 0
                     THEN [mob EXCEPT !.AttackCooldown = mob.AttackCooldown - 1]
                     ELSE mob
         IN IF t # Nil
            THEN LET pr == hp[tbl[t]]
                 IN IF DistLeq(pr.X, pr.Y, mob.X, mob.Y, mobAttackRange)
                    THEN IF mob.AttackCooldown > 0
                         THEN [mob |-> cool, heap |-> hp, events |-> <<>>]
                         ELSE LET r == applyMobAttackLocked(mid, mob, pr)
                              IN [mob |-> [mob EXCEPT !.AttackCooldown = mobAttackCooldownTicks],
                                  heap |-> [hp EXCEPT ![tbl[t]] = r.pr],
                                  events |-> r.events]
                    ELSE LET m1 == moveMobTowardsLocked(mob, pr.X, pr.Y)
                         IN [mob |-> IF m1.AttackCooldown > 0
                                     THEN [m1 EXCEPT !.AttackCooldown = m1.AttackCooldown - 1]
                                     ELSE m1,
                             heap |-> hp, events |-> <<>>]
            ELSE [mob |-> wanderMobLocked(cool, rnd), heap |-> hp, events |-> <<>>]

\* stepMobsLocked: the mobs in the order order (Go leaves the order of
\* the range over s.mobs open), from the i-th on
RECURSIVE stepMobsFrom(_, _, _, _, _, _, _, _)
stepMobsFrom(order, i, ms, tbl, hp, events, rnd, pref) ==
    IF i > Len(order) THEN [mobs |-> ms, heap |-> hp, events |-> events]
    ELSE LET mid == order[i]
             r == stepMob(mid, ms[mid], tbl, hp, rnd[mid], pref)
         IN stepMobsFrom(order, i + 1, [ms EXCEPT ![mid] = r.mob], tbl, r.heap,
                         events \o r.events, rnd, pref)

stepMobsLocked(order, ms, tbl, hp, rnd, pref) ==
    stepMobsFrom(order, 1, ms, tbl, hp, <<>>, rnd, pref)

\* ------------------------------------------------------------------ channels
\* a queue that makes room by dropping its oldest frame
nonBlockingSendEvict(ch, msg) ==
    IF Len(ch) < SendCap THEN Append(ch, msg) ELSE Append(Tail(ch), msg)

\* nonBlockingSend: select with default, the frame is dropped when the
\* buffer is full
nonBlockingSend(ch, msg) == IF Len(ch) < SendCap THEN Append(ch, msg) ELSE ch

\* ------------------------------------------------------------------ state
VARIABLES
    clients,    \* s.clients: the registered sessions
    charOf,     \* Client.CharacterID of each session
    players,    \* s.players: character id -> pointer to its playerRuntime
    heap,       \* the playerRuntime objects: pointer -> PlayerState
    mobs,       \* s.mobs: mob id -> mobRuntime
    tick,       \* s.tick
    started,    \* s.started
    quit,       \* s.quit is closed
    mu,         \* s.mu: [w |-> the writer or NoProc, r |-> the readers]
    sendq,      \* Client.Send: the frames buffered in the channel
    closed,     \* Client.Send is closed
    wire,       \* the frames the writer pump has taken from Client.Send
    st,         \* where the reader of each session is
    todo,       \* the micro-operations each process still has to run
    ncmd,       \* the commands each session has issued
    joins,      \* the playerRuntime objects each session has allocated
    loop,       \* each tick-loop goroutine: "off", "run" or "done"
    mainpc,     \* the calls of Start and Stop made so far, in order
    inflight,   \* the UpdatePosition calls of Move still running
    saved,      \* the UpdatePosition calls UnregisterClient made, per session
    panicked,   \* the processes that have panicked
    diedAt,     \* history: the value of s.tick when each mob last died, or -1
    atStop,     \* history: the sessions Stop found registered
    lim,        \* the bounds of the run: [cmds |-> , ticks |-> , pump |-> ,
                \* calls |-> ]
    authdb,     \* the auth service: the table users, and the last call of
                \* Register with what it returned
    chardb,     \* the character service: rows, the position columns of the
                \* table characters; lost, history: the characters for which a
                \* call of UpdatePosition ended without writing
    wpump,      \* the writePump goroutine of each session: "off", "run", or
                \* how it returned: "closed" (the queue was closed) or
                \* "failed" (a write failed)
    charcalls   \* the calls of ListByUser and Create: where each is, what it
                \* has read and returned; history: the lists the table has
                \* held for each user, and the last of them a mutation that
                \* has returned had written

vars == <<clients, charOf, players, heap, mobs, tick, started, quit, mu, sendq,
          closed, wire, st, todo, ncmd, joins, loop, mainpc, inflight, saved,
          panicked, diedAt, atStop, lim, authdb, chardb, wpump, charcalls>>

\* an unrecovered panic of a goroutine ends the program; a panic of a
\* reader is recovered by the HTTP server that runs the handler
crashed == panicked \cap (TickProcs \cup {MainProc}) # {}

Op(op, f, skip, to, arg) == [op |-> op, f |-> f, skip |-> skip, to |-> to, arg |-> arg]
NoFrame == Frame("", "", "", 0, 0, 0)
OpUnlock == Op("unlock", NoFrame, Nil, {}, <<>>)
OpBcast(skip, f) == Op("bcast", f, skip, {}, <<>>)
OpSend(f) == Op("send", f, Nil, {}, <<>>)

HeadOp(p) == IF todo[p] = <<>> THEN "" ELSE Head(todo[p]).op

CanLock == mu.w = NoProc /\ mu.r = {}
CanRLock == mu.w = NoProc

\* Some process is about to release the lock it holds.  A release commutes
\* to the left of every step of another process (nobody can take the lock
\* before it, and it touches nothing but s.mu), so the model lets the
\* release happen first: no other step is taken in such a state.
Releasing == \E p \in Procs : HeadOp(p) \in {"unlock", "runlock"}

\* the table characters: the owner and the persisted position of each row
CharacterRows ==
    [id \in Chars |-> IF id = "c1"
                      THEN [ID |-> id, UserID |-> "a1", PosX |-> 3000, PosY |-> 2500]
                      ELSE [ID |-> id, UserID |-> "a2", PosX |-> 0, PosY |-> 0]]

\* the users that own a row
Accounts == {CharacterRows[id].UserID : id \in Chars}

\* the rows in the order of created_at
CharOrder == <<"c1", "c2">>

\* the ids uuid.New gives the rows of Create, in the order of the calls
NewIDs == <<"c3", "c4", "c5", "c6">>

\* the service of the characters before any write of the run: made, the
\* rows Create has inserted; cache, the value of the Redis key of each user
\* (<<>> when the key is absent)
NoWrites ==
    [rows |-> [id \in Chars |-> <<CharacterRows[id].PosX, CharacterRows[id].PosY>>],
     lost |-> {},
     made |-> <<>>,
     cache |-> [u \in Accounts |-> <<>>]]

\* ListByUser, lines 70-88: the rows of the user, oldest first
ListOf(db, u) ==
    LET old == SelectSeq(CharOrder, LAMBDA id : CharacterRows[id].UserID = u)
        new == SelectSeq(db.made, LAMBDA r : r.UserID = u)
    IN [i \in DOMAIN old |->
            [ID |-> old[i], PosX |-> db.rows[old[i]][1], PosY |-> db.rows[old[i]][2]]]
       \o [i \in DOMAIN new |-> [ID |-> new[i].ID, PosX |-> 0, PosY |-> 0]]

\* the callers of ListByUser
ListCallers == {"l1", "l2"}

\* no call of the character service made yet
NoCalls ==
    [list |-> [k \in ListCallers |-> [pc |-> "idle"]],
     create |-> [pc |-> "idle"],
     hist |-> [u \in Accounts |-> <<ListOf(NoWrites, u)>>],
     retv |-> [u \in Accounts |-> 0],
     n |-> 0]

InitWith(mobJson, limits) ==
    /\ lim = limits
    /\ clients = {}
    /\ charOf = [c \in Sessions |-> Nil]
    /\ players = [k \in {} |-> <<>>]
    /\ heap = [r \in {} |-> <<>>]
    /\ mobs = [m \in DOMAIN mobJson |-> NewMob(mobJson[m])]
    /\ tick = 0
    /\ started = FALSE
    /\ quit = FALSE
    /\ mu = [w |-> NoProc, r |-> {}]
    /\ sendq = [c \in Sessions |-> <<>>]
    /\ closed = [c \in Sessions |-> FALSE]
    /\ wire = [c \in Sessions |-> <<>>]
    /\ st = [c \in Sessions |-> "new"]
    /\ todo = [p \in Procs |-> <<>>]
    /\ ncmd = [c \in Sessions |-> 0]
    /\ joins = [c \in Sessions |-> 0]
    /\ loop = [p \in TickProcs |-> "off"]
    /\ mainpc = <<>>
    /\ inflight = {}
    /\ saved = [c \in Sessions |-> <<>>]
    /\ panicked = {}
    /\ diedAt = [m \in DOMAIN mobJson |-> -1]
    /\ atStop = {}
    /\ authdb = [users |-> {}, n |-> 0, call |-> <<>>, reply |-> <<>>]
    /\ chardb = NoWrites
    /\ wpump = [c \in Sessions |-> "off"]
    /\ charcalls = NoCalls

\* The frame a send leaves in the channel.  In the runs with lim.pump the
\* writer pump of the session takes every frame the moment it is sent, and
\* the model does not keep what the pump writes.
Enqueue(ch, msg) == IF lim.pump THEN ch ELSE nonBlockingSend(ch, msg)

\* ------------------------------------------------------------------ helpers
Running == ~crashed /\ ~Releasing

RECURSIVE SumOver(_, _)
SumOver(f, S) ==
    IF S = {} THEN 0
    ELSE LET x == CHOOSE y \in S : TRUE IN f[x] + SumOver(f, S \ {x})

\* the reader of c waits for the next message
Idle(c) == st[c] = "open" /\ todo[c] = <<>> /\ c \notin panicked /\ Running
MayCommand(c) == Idle(c) /\ SumOver(ncmd, Sessions) < lim.cmds

Pop(p) == [todo EXCEPT ![p] = Tail(todo[p])]

\* A panic of p.  A reader's panic unwinds readPump: its deferred
\* UnregisterClient runs next, unless the panic is UnregisterClient's own.
PanicOf(p) ==
    /\ panicked' = panicked \cup {p}
    /\ todo' = [todo EXCEPT ![p] = <<>>]
    /\ st' = IF p \in Sessions /\ st[p] = "closing"
             THEN [st EXCEPT ![p] = "dead"] ELSE st

\* a broadcast to every registered session but those of the skipped
\* character
RecipientsRegistered(skip) == {c \in clients : ~(skip # Nil /\ charOf[c] = skip)}

\* the sessions broadcastZone collects, lines 568-581
Recipients(skip) ==
    {c \in clients : /\ charOf[c] # Nil
                     /\ ~(skip # Nil /\ charOf[c] = skip)
                     /\ charOf[c] \in DOMAIN players}

\* a broadcastZone that releases its read lock on return (defer)
BroadcastOpsDeferred(f, rc) ==
    (IF rc = {} THEN <<>> ELSE <<Op("deliver", f, Nil, rc, <<>>)>>)
      \o <<Op("runlock", NoFrame, Nil, {}, <<>>)>>

\* broadcastZone after its recipients are collected, lines 582-586: the
\* read lock is released, then the frame is sent to each of them
BroadcastOps(f, rc) ==
    <<Op("runlock", NoFrame, Nil, {}, <<>>)>>
      \o (IF rc = {} THEN <<>> ELSE <<Op("deliver", f, Nil, rc, <<>>)>>)

\* ------------------------------------------------------------------ micro-operations
\* s.mu.Unlock()
Unlock(p) ==
    /\ ~crashed /\ HeadOp(p) = "unlock"
    /\ mu' = [mu EXCEPT !.w = NoProc]
    /\ todo' = Pop(p)
    /\ UNCHANGED <<clients, charOf, players, heap, mobs, tick, started, quit, sendq,
                   closed, wire, st, ncmd, joins, loop, mainpc, inflight, saved,
                   panicked, diedAt, atStop, lim, authdb, chardb, wpump, charcalls>>

\* broadcastZone, lines 567-581: the recipients, under the read lock
Collect(p) ==
    /\ Running /\ HeadOp(p) = "bcast" /\ CanRLock
    /\ mu' = [mu EXCEPT !.r = mu.r \cup {p}]
    /\ todo' = [todo EXCEPT ![p] =
                  BroadcastOps(Head(todo[p]).f, Recipients(Head(todo[p]).skip))
                    \o Tail(todo[p])]
    /\ UNCHANGED <<clients, charOf, players, heap, mobs, tick, started, quit, sendq,
                   closed, wire, st, ncmd, joins, loop, mainpc, inflight, saved,
                   panicked, diedAt, atStop, lim, authdb, chardb, wpump, charcalls>>

\* s.mu.RUnlock()
RUnlock(p) ==
    /\ ~crashed /\ HeadOp(p) = "runlock"
    /\ mu' = [mu EXCEPT !.r = mu.r \ {p}]
    /\ todo' = Pop(p)
    /\ UNCHANGED <<clients, charOf, players, heap, mobs, tick, started, quit, sendq,
                   closed, wire, st, ncmd, joins, loop, mainpc, inflight, saved,
                   panicked, diedAt, atStop, lim, authdb, chardb, wpump, charcalls>>

\* broadcastZone, lines 584-586: nonBlockingSend to one recipient.  A send
\* on a closed channel panics.
Deliver(p, c) ==
    /\ Running /\ HeadOp(p) = "deliver" /\ c \in Head(todo[p]).to
    /\ IF closed[c]
       THEN PanicOf(p) /\ UNCHANGED sendq
       ELSE /\ sendq' = [sendq EXCEPT ![c] = Enqueue(sendq[c], Head(todo[p]).f)]
            /\ todo' = [todo EXCEPT ![p] =
                          IF Head(todo[p]).to = {c} THEN Tail(todo[p])
                          ELSE <<[Head(todo[p]) EXCEPT !.to = Head(todo[p]).to \ {c}]>>
                                 \o Tail(todo[p])]
            /\ UNCHANGED <<st, panicked>>
    /\ UNCHANGED <<clients, charOf, players, heap, mobs, tick, started, quit, mu,
                   closed, wire, ncmd, joins, loop, mainpc, inflight, saved, diedAt, atStop, lim, authdb, chardb, wpump, charcalls>>

\* nonBlockingSendJSON(c.Send, ...): a frame for the caller alone
SendOwn(c) ==
    /\ Running /\ HeadOp(c) = "send"
    /\ IF closed[c]
       THEN PanicOf(c) /\ UNCHANGED sendq
       ELSE /\ sendq' = [sendq EXCEPT ![c] = Enqueue(sendq[c], Head(todo[c]).f)]
            /\ todo' = Pop(c)
            /\ UNCHANGED <<st, panicked>>
    /\ UNCHANGED <<clients, charOf, players, heap, mobs, tick, started, quit, mu,
                   closed, wire, ncmd, joins, loop, mainpc, inflight, saved, diedAt, atStop, lim, authdb, chardb, wpump, charcalls>>

\* how a call of s.updater.UpdatePosition ends: the row is written, the
\* call returns an error, or its context expires
UpdateOutcomes == {"ok", "error", "timeout"}

\* UpdatePosition, lines 116-130: the UPDATE of the row and the delete of
\* the cache key of its user when the call succeeds; nothing is written
\* when it fails or its context expires
UpdatePosition(job, outcome) ==
    IF outcome = "ok"
    THEN [chardb EXCEPT !.rows[job.char] = <<job.X, job.Y>>,
                        !.cache[CharacterRows[job.char].UserID] = <<>>]
    ELSE [chardb EXCEPT !.lost = @ \cup {job.char}]

\* an UnregisterClient that tells the client when the save has failed
PersistReported(c, outcome) ==
    /\ Running /\ HeadOp(c) = "persist"
    /\ saved' = [saved EXCEPT ![c] = IF outcome = "ok"
                                     THEN Append(saved[c], Head(todo[c]).arg)
                                     ELSE saved[c]]
    /\ todo' = [todo EXCEPT ![c] =
                  (IF outcome = "ok" THEN <<>>
                   ELSE <<OpBcast(Nil, Stamp(Frame("error", "", "position save failed",
                                                   0, 0, 0), c, ncmd[c] + 1, 3))>>)
                    \o Tail(todo[c])]
    /\ chardb' = UpdatePosition(Head(todo[c]).arg, outcome)
    /\ UNCHANGED <<clients, charOf, players, heap, mobs, tick, started, quit, mu, sendq,
                   closed, wire, st, ncmd, joins, loop, mainpc, inflight, panicked, diedAt, atStop, lim, authdb, wpump, charcalls>>

\* UnregisterClient, lines 204-208: s.updater.UpdatePosition, awaited; an
\* error is logged
PersistResult(c, outcome) ==
    /\ Running /\ HeadOp(c) = "persist"
    /\ saved' = [saved EXCEPT ![c] = IF outcome = "ok"
                                     THEN Append(saved[c], Head(todo[c]).arg)
                                     ELSE saved[c]]
    /\ todo' = Pop(c)
    /\ chardb' = UpdatePosition(Head(todo[c]).arg, outcome)
    /\ UNCHANGED <<clients, charOf, players, heap, mobs, tick, started, quit, mu, sendq,
                   closed, wire, st, ncmd, joins, loop, mainpc, inflight, panicked, diedAt, atStop, lim, authdb, wpump, charcalls>>

Persist(c) == \E outcome \in UpdateOutcomes : PersistResult(c, outcome)

\* Move, lines 310-316: the goroutine of a move ends; an error is logged
UpdateDone(job, outcome) ==
    /\ Running /\ job \in inflight
    /\ outcome \in UpdateOutcomes
    /\ inflight' = inflight \ {job}
    /\ chardb' = UpdatePosition(job, outcome)
    /\ UNCHANGED <<clients, charOf, players, heap, mobs, tick, started, quit, mu, sendq,
                   closed, wire, st, todo, ncmd, joins, loop, mainpc, saved, panicked,
                   diedAt, atStop, lim, authdb, wpump, charcalls>>

\* Move, lines 309-317: go func() { s.updater.UpdatePosition(...) }()
SpawnPersist(c) ==
    /\ Running /\ HeadOp(c) = "spawn"
    /\ inflight' = inflight \cup {Head(todo[c]).arg}
    /\ todo' = Pop(c)
    /\ UNCHANGED <<clients, charOf, players, heap, mobs, tick, started, quit, mu, sendq,
                   closed, wire, st, ncmd, joins, loop, mainpc, saved, panicked, diedAt, atStop, lim, authdb, chardb, wpump, charcalls>>

\* UnregisterClient, lines 210-213: close(c.Send), c.Conn.Close().  The
\* close of a closed channel panics.
CloseOwn(c) ==
    /\ Running /\ HeadOp(c) = "close"
    /\ IF closed[c]
       THEN PanicOf(c) /\ UNCHANGED closed
       ELSE /\ closed' = [closed EXCEPT ![c] = TRUE]
            /\ st' = [st EXCEPT ![c] = "gone"]
            /\ todo' = Pop(c)
            /\ UNCHANGED panicked
    /\ UNCHANGED <<clients, charOf, players, heap, mobs, tick, started, quit, mu, sendq,
                   wire, ncmd, joins, loop, mainpc, inflight, saved, diedAt, atStop, lim, authdb, chardb, wpump, charcalls>>

\* ------------------------------------------------------------------ session registry
\* RegisterClient, and go h.writePump(client) of worldWS
RegisterClient(c) ==
    /\ Running /\ st[c] = "new" /\ CanLock
    /\ clients' = clients \cup {c}
    /\ mu' = [mu EXCEPT !.w = c]
    /\ st' = [st EXCEPT ![c] = "open"]
    /\ wpump' = [wpump EXCEPT ![c] = "run"]
    /\ todo' = [todo EXCEPT ![c] = <<OpUnlock>>]
    /\ UNCHANGED <<charOf, players, heap, mobs, tick, started, quit, sendq, closed,
                   wire, ncmd, joins, loop, mainpc, inflight, saved, panicked, diedAt, atStop, lim, authdb, chardb, charcalls>>

\* what UnregisterClient runs after its critical section, lines 201-213
UnregisterOps(c, exists, pr) ==
    <<OpUnlock>>
      \o (IF exists
          THEN <<OpBcast(charOf[c], Stamp(Frame("player_left", charOf[c], "", 0, 0, 0),
                                          c, ncmd[c] + 1, 1)),
                 OpBcast(Nil, Stamp(Frame("broadcast", pr.ID, "left the world", 0, 0, 0),
                                    c, ncmd[c] + 1, 2)),
                 Op("persist", NoFrame, Nil, {},
                    [char |-> charOf[c], X |-> pr.X, Y |-> pr.Y])>>
          ELSE <<>>)
      \o <<Op("close", NoFrame, Nil, {}, <<>>)>>

\* UnregisterClient, lines 193-199, which readPump defers: it runs when the
\* read of the next message fails (the peer went away, a write of the
\* writer pump broke the connection, Stop closed it), or when a handler has
\* panicked
UnregisterClient(c) ==
    /\ Running /\ st[c] \in {"open", "broken"} /\ todo[c] = <<>> /\ CanLock
    /\ LET exists == charOf[c] \in DOMAIN players
       IN /\ clients' = clients \ {c}
          /\ players' = [k \in DOMAIN players \ {charOf[c]} |-> players[k]]
          /\ todo' = [todo EXCEPT ![c] =
                        UnregisterOps(c, exists,
                                      IF exists THEN heap[players[charOf[c]]] ELSE <<>>)]
    /\ mu' = [mu EXCEPT !.w = c]
    /\ st' = [st EXCEPT ![c] = "closing"]
    /\ UNCHANGED <<charOf, heap, mobs, tick, started, quit, sendq, closed, wire, ncmd,
                   joins, loop, mainpc, inflight, saved, panicked, diedAt, atStop, lim, authdb, chardb, wpump, charcalls>>

\* ------------------------------------------------------------------ join
\* Join, lines 217-240, before the lock: the position, c.CharacterID and
\* the player
JoinBegin(c, id, pos) ==
    /\ MayCommand(c)
    /\ charOf' = [charOf EXCEPT ![c] = id]
    /\ ncmd' = [ncmd EXCEPT ![c] = ncmd[c] + 1]
    /\ joins' = [joins EXCEPT ![c] = joins[c] + 1]
    /\ todo' = [todo EXCEPT ![c] =
                  <<Op("joinlock", NoFrame, Nil, {}, NewPlayer(c, id, pos[1], pos[2]))>>]
    /\ UNCHANGED <<clients, players, heap, mobs, tick, started, quit, mu, sendq, closed,
                   wire, st, loop, mainpc, inflight, saved, panicked, diedAt, atStop, lim, authdb, chardb, wpump, charcalls>>

\* a join that announces the player to the whole zone, the joining session
\* included
JoinOpsEcho(c, player, ps, ms) ==
    <<OpUnlock,
      OpSend(Stamp([Frame("welcome", player.ID, "", player.X, player.Y, player.HP)
                      EXCEPT !.ps = ps, !.mobs = ms], c, ncmd[c], 1)),
      OpBcast(Nil,
              Stamp(Frame("player_joined", player.ID, "", player.X, player.Y, 0),
                    c, ncmd[c], 2)),
      OpBcast(Nil, Stamp(Frame("broadcast", player.ID, "joined the world", 0, 0, 0),
                         c, ncmd[c], 3))>>

\* what Join runs after its critical section, lines 248-265
JoinOps(c, player, ps, ms) ==
    <<OpUnlock,
      OpSend(Stamp([Frame("welcome", player.ID, "", player.X, player.Y, player.HP)
                      EXCEPT !.ps = ps, !.mobs = ms], c, ncmd[c], 1)),
      OpBcast(player.ID,
              Stamp(Frame("player_joined", player.ID, "", player.X, player.Y, 0),
                    c, ncmd[c], 2)),
      OpBcast(Nil, Stamp(Frame("broadcast", player.ID, "joined the world", 0, 0, 0),
                         c, ncmd[c], 3))>>

\* Join, lines 242-248: the critical section
JoinLock(c) ==
    /\ Running /\ HeadOp(c) = "joinlock" /\ CanLock
    /\ LET player == Head(todo[c]).arg
           ref == <<c, joins[c]>>
       IN /\ players' = (player.ID :> ref) @@ players
          /\ heap' = (ref :> player) @@ heap
          /\ todo' = [todo EXCEPT ![c] =
                        JoinOps(c, player, DOMAIN players', mobStatesLocked(mobs))]
    /\ mu' = [mu EXCEPT !.w = c]
    /\ UNCHANGED <<clients, charOf, mobs, tick, started, quit, sendq, closed, wire, st,
                   ncmd, joins, loop, mainpc, inflight, saved, panicked, diedAt, atStop, lim, authdb, chardb, wpump, charcalls>>

\* ------------------------------------------------------------------ move
\* Move, lines 269-271: an intent of no length is dropped
MoveZero(c, d) ==
    /\ MayCommand(c)
    /\ d[1] = 0 /\ d[2] = 0
    /\ ncmd' = [ncmd EXCEPT ![c] = ncmd[c] + 1]
    /\ UNCHANGED <<clients, charOf, players, heap, mobs, tick, started, quit, mu, sendq,
                   closed, wire, st, todo, joins, loop, mainpc, inflight, saved,
                   panicked, diedAt, atStop, lim, authdb, chardb, wpump, charcalls>>

\* what Move runs after its critical section, lines 299-317
MoveOps(c, st2) ==
    <<OpUnlock,
      OpBcast(Nil, Stamp(Frame("player_moved", charOf[c], "", st2.X, st2.Y, 0),
                         c, ncmd[c] + 1, 1)),
      Op("spawn", NoFrame, Nil, {}, [char |-> charOf[c], X |-> st2.X, Y |-> st2.Y])>>

\* Move, lines 272-299: the critical section
Move(c, d) ==
    /\ MayCommand(c) /\ CanLock
    /\ ~(d[1] = 0 /\ d[2] = 0)
    /\ ncmd' = [ncmd EXCEPT ![c] = ncmd[c] + 1]
    /\ mu' = [mu EXCEPT !.w = c]
    /\ IF charOf[c] \notin DOMAIN players
       THEN /\ todo' = [todo EXCEPT ![c] = <<OpUnlock>>]
            /\ UNCHANGED heap
       ELSE LET ref == players[charOf[c]]
                st2 == MovePlayer(heap[ref], d[1], d[2])
            IN /\ heap' = [heap EXCEPT ![ref] = st2]
               /\ todo' = [todo EXCEPT ![c] = MoveOps(c, st2)]
    /\ UNCHANGED <<clients, charOf, players, mobs, tick, started, quit, sendq, closed,
                   wire, st, joins, loop, mainpc, inflight, saved, panicked, diedAt, atStop, lim, authdb, chardb, wpump, charcalls>>

\* ------------------------------------------------------------------ readPump
\* a refusal of the reader that sends nothing
sendErrorSilent(c, msg) ==
    /\ MayCommand(c)
    /\ ncmd' = [ncmd EXCEPT ![c] = ncmd[c] + 1]
    /\ UNCHANGED <<clients, charOf, players, heap, mobs, tick, started, quit, mu, sendq,
                   closed, wire, st, todo, joins, loop, mainpc, inflight, saved, panicked,
                   diedAt, atStop, lim, authdb, chardb, wpump, charcalls>>

\* readPump, lines 276-297: a message the reader refuses itself, and
\* sendError
sendError(c, msg) ==
    /\ MayCommand(c)
    /\ ncmd' = [ncmd EXCEPT ![c] = ncmd[c] + 1]
    /\ todo' = [todo EXCEPT ![c] =
                  <<OpSend(Stamp(Frame("error", "", msg, 0, 0, 0), c, ncmd[c] + 1, 1))>>]
    /\ UNCHANGED <<clients, charOf, players, heap, mobs, tick, started, quit, mu, sendq,
                   closed, wire, st, joins, loop, mainpc, inflight, saved, panicked,
                   diedAt, atStop, lim, authdb, chardb, wpump, charcalls>>

\* ------------------------------------------------------------------ attack
\* a refusal that goes to the zone instead of the caller
ErrorOpsZone(c, msg) ==
    <<OpUnlock, OpBcast(Nil, Stamp(Frame("error", "", msg, 0, 0, 0), c, ncmd[c] + 1, 1))>>

\* what Attack runs after a refusal, lines 329-331 and 336-338
ErrorOps(c, msg) ==
    <<OpUnlock, OpSend(Stamp(Frame("error", "", msg, 0, 0, 0), c, ncmd[c] + 1, 1))>>

\* what Attack runs after its first critical section, lines 344-348: the
\* combat broadcast, then the lock again
AttackOps(c, ref, target, dmg) ==
    <<OpUnlock,
      OpBcast(Nil, Stamp(Frame("combat", charOf[c], target, 0, 0, dmg),
                         c, ncmd[c] + 1, 1)),
      Op("attack2", NoFrame, Nil, {}, [pr |-> ref, target |-> target])>>

\* Attack, lines 321-344: the first critical section
Attack(c, target) ==
    /\ MayCommand(c) /\ CanLock
    /\ ncmd' = [ncmd EXCEPT ![c] = ncmd[c] + 1]
    /\ mu' = [mu EXCEPT !.w = c]
    /\ IF charOf[c] \notin DOMAIN players
       THEN /\ todo' = [todo EXCEPT ![c] = <<OpUnlock>>]
            /\ UNCHANGED mobs
       ELSE LET ref == players[charOf[c]]
                pr == heap[ref]
            IN IF target \notin DOMAIN mobs \/ ~mobs[target].Alive
               THEN /\ todo' = [todo EXCEPT ![c] = ErrorOps(c, "invalid mob target")]
                    /\ UNCHANGED mobs
               ELSE IF ~DistLeq(pr.X, pr.Y, mobs[target].X, mobs[target].Y,
                                playerAttackRange)
                    THEN /\ todo' = [todo EXCEPT ![c] = ErrorOps(c, "target out of range")]
                         /\ UNCHANGED mobs
                    ELSE LET dmg == basePlayerDamage + (pr.Level - 1) * 3
                         IN /\ mobs' = [mobs EXCEPT ![target].HP = mobs[target].HP - dmg]
                            /\ todo' = [todo EXCEPT ![c] = AttackOps(c, ref, target, dmg)]
    /\ UNCHANGED <<clients, charOf, players, heap, tick, started, quit, sendq, closed,
                   wire, st, joins, loop, mainpc, inflight, saved, panicked, diedAt, atStop, lim, authdb, chardb, wpump, charcalls>>

\* what Attack runs after its second critical section, lines 364-370
DeathOps(c, dead, target, snap) ==
    <<OpUnlock>>
      \o (IF dead
          THEN <<OpBcast(Nil, Stamp(Frame("mob_died", target, "", 0, 0, 0), c, ncmd[c], 2)),
                 OpBcast(Nil, Stamp(Frame("broadcast", snap.ID, "defeated", 0, 0, 0),
                                    c, ncmd[c], 3)),
                 OpSend(Stamp(Frame("player_update", snap.ID, "", snap.Level,
                                    snap.MaxHP, snap.Experience), c, ncmd[c], 4))>>
          ELSE <<>>)

\* Attack, lines 348-364: the second critical section.  pr is the pointer
\* the first one read.
AttackDeath(c) ==
    /\ Running /\ HeadOp(c) = "attack2" /\ CanLock
    /\ LET ref == Head(todo[c]).arg.pr
           target == Head(todo[c]).arg.target
           mob == mobs[target]
           dies == mob.HP <= 0 /\ mob.Alive
           mob2 == IF dies
                   THEN [mob EXCEPT !.Alive = FALSE, !.RespawnCounter = mobRespawnTicks,
                                    !.HP = 0]
                   ELSE mob
           dead == ~mob2.Alive /\ mob2.RespawnCounter = mobRespawnTicks
       IN /\ mobs' = [mobs EXCEPT ![target] = mob2]
          /\ heap' = IF dies THEN [heap EXCEPT ![ref] = Killed(heap[ref])] ELSE heap
          /\ todo' = [todo EXCEPT ![c] =
                        DeathOps(c, dead, target, heap'[ref]) \o Tail(todo[c])]
          /\ diedAt' = IF dies THEN [diedAt EXCEPT ![target] = tick] ELSE diedAt
    /\ mu' = [mu EXCEPT !.w = c]
    /\ UNCHANGED <<clients, charOf, players, tick, started, quit, sendq, closed, wire,
                   st, ncmd, joins, loop, mainpc, inflight, saved, panicked,
                   atStop, lim, authdb, chardb, wpump, charcalls>>

\* ------------------------------------------------------------------ tick loop
\* a tick loop that sends the snapshot of the mobs before the events
TickOpsSnapshotFirst(p, t, events, ms) ==
    <<OpUnlock>>
      \o <<OpBcast(Nil, Stamp([Frame("mob_update", "", "", 0, 0, 0) EXCEPT !.mobs = ms],
                              p, t, Len(events) + 1))>>
      \o [i \in 1..Len(events) |-> OpBcast(Nil, Stamp(events[i], p, t, i))]

\* what tickWorld runs after its critical section, lines 378-383: the
\* events in the order they were collected, then mob_update
TickOps(p, t, events, ms) ==
    <<OpUnlock>>
      \o [i \in 1..Len(events) |-> OpBcast(Nil, Stamp(events[i], p, t, i))]
      \o <<OpBcast(Nil, Stamp([Frame("mob_update", "", "", 0, 0, 0) EXCEPT !.mobs = ms],
                              p, t, Len(events) + 1))>>

\* a tick that counts itself twice
tickWorldTwice(p, order, rnd, pref) ==
    /\ Running /\ loop[p] = "run" /\ todo[p] = <<>> /\ CanLock
    /\ tick < lim.ticks
    /\ LET r == stepMobsLocked(order, mobs, players, heap, rnd, pref)
       IN /\ tick' = tick + 2
          /\ mobs' = r.mobs
          /\ heap' = r.heap
          /\ todo' = [todo EXCEPT ![p] =
                        TickOps(p, tick + 1, r.events, mobStatesLocked(r.mobs))]
    /\ mu' = [mu EXCEPT !.w = p]
    /\ UNCHANGED <<clients, charOf, players, started, quit, sendq, closed, wire, st,
                   ncmd, joins, loop, mainpc, inflight, saved, panicked, diedAt, atStop, lim, authdb, chardb, wpump, charcalls>>

\* tickWorld, lines 374-378, when the ticker fires in the loop of Start
\* that the goroutine p runs.  order, rnd and pref are what Go and s.rand
\* leave open: the order of the range over s.mobs, the random heading and
\* duration of each mob, the order of the range over s.players.
tickWorld(p, order, rnd, pref) ==
    /\ Running /\ loop[p] = "run" /\ todo[p] = <<>> /\ CanLock
    /\ tick < lim.ticks
    /\ LET r == stepMobsLocked(order, mobs, players, heap, rnd, pref)
       IN /\ tick' = tick + 1
          /\ mobs' = r.mobs
          /\ heap' = r.heap
          /\ todo' = [todo EXCEPT ![p] =
                        TickOps(p, tick + 1, r.events, mobStatesLocked(r.mobs))]
    /\ mu' = [mu EXCEPT !.w = p]
    /\ UNCHANGED <<clients, charOf, players, started, quit, sendq, closed, wire, st,
                   ncmd, joins, loop, mainpc, inflight, saved, panicked, diedAt, atStop, lim, authdb, chardb, wpump, charcalls>>

\* the loop of Start, lines 153-154: case <-s.quit
LoopExit(p) ==
    /\ Running /\ loop[p] = "run" /\ todo[p] = <<>> /\ quit
    /\ loop' = [loop EXCEPT ![p] = "done"]
    /\ UNCHANGED <<clients, charOf, players, heap, mobs, tick, started, quit, mu, sendq,
                   closed, wire, st, todo, ncmd, joins, mainpc, inflight, saved,
                   panicked, diedAt, atStop, lim, authdb, chardb, wpump, charcalls>>

\* ------------------------------------------------------------------ Start and Stop
\* the goroutine that calls Start and Stop is between two calls and the
\* run has it make the call next
MayCall(call) ==
    /\ Running /\ todo[MainProc] = <<>> /\ MainProc \notin panicked
    /\ Append(mainpc, call) \in lim.calls

\* Start, lines 137-143
Start ==
    /\ MayCall("Start") /\ CanLock
    /\ started' = TRUE
    /\ mu' = [mu EXCEPT !.w = MainProc]
    /\ mainpc' = Append(mainpc, "Start")
    /\ todo' = [todo EXCEPT ![MainProc] =
                  <<OpUnlock>> \o (IF started THEN <<>>
                                   ELSE <<Op("go", NoFrame, Nil, {}, <<>>)>>)]
    /\ UNCHANGED <<clients, charOf, players, heap, mobs, tick, quit, sendq, closed,
                   wire, st, ncmd, joins, loop, inflight, saved, panicked, diedAt,
                   atStop, lim, authdb, chardb, wpump, charcalls>>

\* Start, lines 145-157: go func() { ... }(), a new goroutine of the tick
\* loop
GoLoop ==
    /\ Running /\ HeadOp(MainProc) = "go"
    /\ \E p \in TickProcs :
         /\ loop[p] = "off"
         /\ p # TickProc => loop[TickProc] # "off"
         /\ loop' = [loop EXCEPT ![p] = "run"]
    /\ todo' = Pop(MainProc)
    /\ UNCHANGED <<clients, charOf, players, heap, mobs, tick, started, quit, mu, sendq,
                   closed, wire, st, ncmd, joins, mainpc, inflight, saved, panicked, diedAt, atStop, lim, authdb, chardb, wpump, charcalls>>

\* what Stop runs after its critical section, lines 174-181
StopOps(cs) ==
    <<OpUnlock>> \o (IF cs = {} THEN <<>> ELSE <<Op("closeall", NoFrame, Nil, cs, <<>>)>>)

\* Stop, lines 161-174.  The close of s.quit, a channel NewService makes
\* once and nothing makes again, panics when an earlier Stop has closed
\* it; Stop then still holds the lock.
Stop ==
    /\ MayCall("Stop") /\ CanLock
    /\ mainpc' = Append(mainpc, "Stop")
    /\ mu' = [mu EXCEPT !.w = MainProc]
    /\ IF ~started
       THEN /\ todo' = [todo EXCEPT ![MainProc] = <<OpUnlock>>]
            /\ UNCHANGED <<started, quit, clients, players, st, panicked, atStop>>
       ELSE IF quit
            THEN /\ started' = FALSE
                 /\ PanicOf(MainProc)
                 /\ UNCHANGED <<quit, clients, players, atStop>>
            ELSE /\ started' = FALSE
                 /\ quit' = TRUE
                 /\ clients' = {}
                 /\ players' = [k \in {} |-> <<>>]
                 /\ atStop' = clients
                 /\ todo' = [todo EXCEPT ![MainProc] = StopOps(clients)]
                 /\ UNCHANGED <<st, panicked>>
    /\ UNCHANGED <<charOf, heap, mobs, tick, sendq, closed, wire, ncmd, joins, loop,
                   inflight, saved, diedAt, lim, authdb, chardb, wpump, charcalls>>

\* Stop, lines 176-181: close(c.Send) and c.Conn.Close() of one client.
\* The reader of a closed connection reads no further message.
CloseAll(c) ==
    /\ Running /\ HeadOp(MainProc) = "closeall" /\ c \in Head(todo[MainProc]).to
    /\ IF closed[c]
       THEN PanicOf(MainProc) /\ UNCHANGED closed
       ELSE /\ closed' = [closed EXCEPT ![c] = TRUE]
            /\ todo' = [todo EXCEPT ![MainProc] =
                          IF Head(todo[MainProc]).to = {c} THEN Tail(todo[MainProc])
                          ELSE <<[Head(todo[MainProc]) EXCEPT
                                    !.to = Head(todo[MainProc]).to \ {c}]>>
                                 \o Tail(todo[MainProc])]
            /\ st' = IF st[c] = "open" THEN [st EXCEPT ![c] = "broken"] ELSE st
            /\ UNCHANGED panicked
    /\ UNCHANGED <<clients, charOf, players, heap, mobs, tick, started, quit, mu, sendq,
                   wire, ncmd, joins, loop, mainpc, inflight, saved, diedAt, atStop, lim, authdb, chardb, wpump, charcalls>>

\* ------------------------------------------------------------------ writer pump
\* writePump: one frame from Client.Send to the connection
Drain(c) ==
    /\ Running /\ sendq[c] # <<>>
    /\ wire' = [wire EXCEPT ![c] = Append(wire[c], Head(sendq[c]))]
    /\ sendq' = [sendq EXCEPT ![c] = Tail(sendq[c])]
    /\ UNCHANGED <<clients, charOf, players, heap, mobs, tick, started, quit, mu,
                   closed, st, todo, ncmd, joins, loop, mainpc, inflight, saved,
                   panicked, diedAt, atStop, lim, authdb, chardb, wpump, charcalls>>

\* ------------------------------------------------------------------ next-state relations
\* what s.rand gives a mob that wanders: the heading, as the vector of
\* length 0.7 * mobMoveSpeed, and Intn(mobWanderMaxTicks)
WanderOne == {<<(<<wanderSpeed, 0>>), 0>>}

Orders(S) == {o \in [1..Cardinality(S) -> S] : \A i, j \in DOMAIN o : i # j => o[i] # o[j]}

\* the steps every process takes inside a function
Micro ==
    \/ \E p \in Procs : Unlock(p) \/ Collect(p) \/ RUnlock(p)
    \/ \E p \in Procs, c \in Sessions : Deliver(p, c)

\* the messages the readers handle: joinIn are triples <<session, character
\* id, persisted position>>, moveIn pairs <<session, intent vector>>
Joins(joinIn) ==
    \/ \E j \in joinIn : JoinBegin(j[1], j[2], j[3])
    \/ \E c \in Sessions : JoinLock(c) \/ SendOwn(c)
\* the same for sessions that join once
FirstJoins(joinIn) ==
    \/ \E j \in joinIn : charOf[j[1]] = Nil /\ JoinBegin(j[1], j[2], j[3])
    \/ \E c \in Sessions : JoinLock(c) \/ SendOwn(c)
Moves(moveIn) ==
    \/ \E m \in moveIn : Move(m[1], m[2])
    \/ \E c \in Sessions : SpawnPersist(c)
Attacks(attackIn) ==
    \/ \E a \in attackIn : Attack(a[1], a[2])
    \/ \E c \in Sessions : AttackDeath(c)
Leaves(ss) == \E c \in ss : UnregisterClient(c) \/ Persist(c) \/ CloseOwn(c)

Ticks(wander) ==
    \E p \in TickProcs, order \in Orders(DOMAIN mobs), rnd \in [DOMAIN mobs -> wander],
       pref \in Orders(Chars) : tickWorld(p, order, rnd, pref)

Starts == Start \/ GoLoop
Stops == Stop \/ (\E p \in TickProcs : LoopExit(p)) \/ \E c \in Sessions : CloseAll(c)

\* ------------------------------------------------------------------ readPump
\* An inbound text message.  wellFormed says whether the text is a JSON
\* object; the other fields of the record are the keys of the object and
\* their values.
\* encoding/json matches a key of the object to the tag of a field
\* ignoring case, and nothing else: this is the key in lower case, for the
\* keys of the runs
FoldKey(k) ==
    CASE k = "targetId" -> "targetid"
      [] OTHER -> k

\* the value ReadJSON leaves in the field with this tag: that of a
\* matching key, else the zero value of the field
Field(raw, tag, zero) ==
    LET ks == {k \in DOMAIN raw : FoldKey(k) = tag}
    IN IF ks = {} THEN zero ELSE raw[CHOOSE k \in ks : TRUE]

\* readPump, lines 263-269: the struct a message is decoded into
Decode(raw) ==
    [Type |-> Field(raw, "type", ""), CharacterID |-> Field(raw, "character_id", ""),
     DX |-> Field(raw, "dx", 0), DY |-> Field(raw, "dy", 0),
     TargetID |-> Field(raw, "target_id", "")]

\* uuid.Parse succeeds on the ids of the runs; "c9" is the id of no row
UUIDs == Chars \cup {"c9"}

\* strings.TrimSpace on the target ids and the emails of the runs
TrimSpace(str) ==
    CASE str \in {"", " ", "  "} -> ""
      [] str = " player@example.com " -> "player@example.com"
      [] OTHER -> str

\* the account of the token a session connected with (worldWS, lines
\* 234-246)
AccountID(c) == IF c = "s1" THEN "a1" ELSE "a2"

\* how the query of GetByIDForUser ends
DbOutcomes == {"ok", "error"}

\* a lookup that does not compare the owner of the row
GetByIDAnyUser(db, userID, characterID) ==
    IF db # "ok" THEN [err |-> "query character"]
    ELSE IF characterID \notin DOMAIN CharacterRows THEN [err |-> "ErrNotFound"]
    ELSE [err |-> "", char |-> CharacterRows[characterID]]

\* GetByIDForUser: the row, or an error when the query fails, no row has
\* the id, or the row belongs to another user
GetByIDForUser(db, userID, characterID) ==
    IF db # "ok" THEN [err |-> "query character"]
    ELSE IF characterID \notin DOMAIN CharacterRows THEN [err |-> "ErrNotFound"]
    ELSE IF CharacterRows[characterID].UserID # userID THEN [err |-> "ErrForbidden"]
    ELSE [err |-> "", char |-> CharacterRows[characterID]]

\* readPump, lines 262-297: one turn of the loop.  A message ReadJSON
\* cannot decode ends the loop, and the deferred UnregisterClient runs.
ReadMessage(c, raw, db) ==
    IF ~raw.wellFormed
    THEN UnregisterClient(c)
    ELSE LET msg == Decode(raw)
         IN CASE msg.Type = "join" ->
                   IF msg.CharacterID \notin UUIDs
                   THEN sendError(c, "invalid character_id")
                   ELSE LET r == GetByIDForUser(db, AccountID(c), msg.CharacterID)
                        IN IF r.err # ""
                           THEN sendError(c, "character not found")
                           ELSE JoinBegin(c, r.char.ID, <<r.char.PosX, r.char.PosY>>)
              [] msg.Type = "move" ->
                   Move(c, <<msg.DX, msg.DY>>) \/ MoveZero(c, <<msg.DX, msg.DY>>)
              [] msg.Type = "attack" ->
                   IF TrimSpace(msg.TargetID) = ""
                   THEN sendError(c, "target_id is required")
                   ELSE Attack(c, msg.TargetID)
              [] OTHER -> sendError(c, "unknown message type")

\* the messages the readers read, rawIn being pairs <<session, message>>,
\* and what their handlers go on to do
Reads(rawIn) ==
    \/ \E in \in rawIn, db \in DbOutcomes : ReadMessage(in[1], in[2], db)
    \/ \E c \in Sessions : JoinLock(c) \/ SendOwn(c) \/ SpawnPersist(c) \/ AttackDeath(c)
    \/ \E c \in Sessions : Persist(c) \/ CloseOwn(c)

\* the runs in which Start is called once, and Stop once after it
StartThenStop == {<<>>, <<"Start">>, <<"Start", "Stop">>}

\* the session has joined and its reader waits for a message
Settled(c) == st[c] = "open" /\ todo[c] = <<>> /\ charOf[c] \in DOMAIN players

\* the map file of the runs: one mob east of the spawn point
MobNearSpawn(hp, dmg) ==
    [m \in {"m1"} |-> [X |-> 4000, Y |-> 2500, HP |-> hp, Damage |-> dmg,
                       PatrolRadius |-> 500]]

\* two mobs in reach of a player at (3.0, 2.5)
MobPair(hp, dmg) ==
    [m \in {"m1", "m2"} |->
        [X |-> IF m = "m1" THEN 4000 ELSE 3000, Y |-> IF m = "m1" THEN 2500 ELSE 3500,
         HP |-> hp, Damage |-> dmg, PatrolRadius |-> 500]]

\* ------------------------------------------------------------------ Spec
\* Two sessions whose handlers interleave: s1 connects and joins, then s2
\* connects; s1 moves, both may leave at any time.
Init == InitWith(MobNearSpawn(40, 100), [cmds |-> MaxCmds, ticks |-> 0, pump |-> FALSE,
                                        calls |-> StartThenStop])

Next ==
    \/ Micro
    \/ RegisterClient("s1")
    \/ (Settled("s1") /\ RegisterClient("s2"))
    \/ Joins({<<"s1", "c1", <<3000, 2500>> >>, <<"s2", "c2", <<0, 0>> >>})
    \/ Moves({<<"s1", <<-1000, 0>> >>})
    \/ Leaves(Sessions)

Spec == Init /\ [][Next]_vars

\* ------------------------------------------------------------------ C1
\* C1: no goroutine of the server ever fails fatally: whatever the
\* interleaving of commands, connects, disconnects and broadcasts, no
\* frame is ever sent on a send queue that has been closed and no queue is
\* closed twice, so the set of goroutines that panicked stays empty.
C1_NoFatalFailure == panicked = {}

\* ------------------------------------------------------------------ SpecIso
\* A fast and a stalled consumer: s1 and s2 join the zone, then s1 moves
\* again and again.  The writer pump of s1 drains its queue before s1's
\* reader handles the next message; the pump of s2 never takes a frame.
MaxCmdsIso == 131

InitIso ==
    InitWith(MobNearSpawn(40, 100), [cmds |-> MaxCmdsIso, ticks |-> 0, pump |-> FALSE,
                                        calls |-> StartThenStop])

NextIso ==
    \/ Micro
    \/ RegisterClient("s1")
    \/ (Settled("s1") /\ RegisterClient("s2"))
    \/ FirstJoins({<<"s1", "c1", <<0, 0>> >>, <<"s2", "c2", <<0, 0>> >>})
    \/ (Settled("s2") /\ sendq["s1"] = <<>> /\ Move("s1", <<-1000, 0>>))
    \/ SpawnPersist("s1")
    \/ Drain("s1")

SpecIso == InitIso /\ [][NextIso]_vars

\* ------------------------------------------------------------------ C2
\* the frames of c, oldest first: those its pump has written, then those
\* still queued
Got(c) == wire[c] \o sendq[c]
IsMove(f) == f.type = "player_moved" /\ f.src = "s1"
MovesIn(q) == SelectSeq(q, IsMove)
\* the moves of s1 whose broadcast has been through its send to c
Offered(c) ==
    (ncmd["s1"] - 1) -
    (IF \E i \in DOMAIN todo["s1"] :
            /\ IsMove(todo["s1"][i].f)
            /\ (todo["s1"][i].op = "bcast" \/ c \in todo["s1"][i].to)
     THEN 1 ELSE 0)
\* the frames s2 was sent before the first move: welcome and its join notice
JoinFrames == Len(sendq["s2"]) - Len(MovesIn(sendq["s2"]))
Min(a, b) == IF a < b THEN a ELSE b

\* C2: a session that stops draining its queue never holds more than 128
\* frames, keeps the first frames it was offered in the order they were
\* sent and loses only the later ones, and it costs the other sessions
\* nothing: every broadcast still completes and the session that drains
\* receives every frame of every move, in order.
C2_SlowConsumerIsolation ==
    /\ \A c \in Sessions : Len(sendq[c]) <= SendCap
    /\ wire["s2"] = <<>>
    /\ charOf["s1"] \in DOMAIN players =>
         /\ Len(MovesIn(Got("s1"))) = Offered("s1")
         /\ \A j \in DOMAIN MovesIn(Got("s1")) : MovesIn(Got("s1"))[j].ord = <<j + 1, 1>>
    /\ Offered("s2") > 0 =>
         /\ Len(MovesIn(sendq["s2"])) = Min(Offered("s2"), SendCap - JoinFrames)
         /\ \A j \in DOMAIN MovesIn(sendq["s2"]) :
                MovesIn(sendq["s2"])[j].ord = <<j + 1, 1>>

\* the queue of s2 is full, s1 has moved on and received a frame s2 lost
C2_Witness ==
    /\ Len(sendq["s2"]) = SendCap
    /\ Offered("s2") > SendCap - JoinFrames
    /\ Len(MovesIn(Got("s1"))) > SendCap - JoinFrames
    /\ todo["s1"] = <<>>

\* ------------------------------------------------------------------ SpecTick
\* One session between two mobs while the tick loop runs: it connects,
\* joins once and moves; every frame it is sent is kept.
MaxCmdsTick == 2

InitTick ==
    InitWith(MobPair(40, 60), [cmds |-> MaxCmdsTick, ticks |-> MaxTick, pump |-> FALSE,
                                 calls |-> StartThenStop])

NextTick ==
    \/ Micro
    \/ RegisterClient("s1")
    \/ FirstJoins({<<"s1", "c1", <<3000, 2500>> >>})
    \/ Moves({<<"s1", <<-1000, 0>> >>})
    \/ Starts
    \/ Ticks(WanderOne)

SpecTick == InitTick /\ [][NextTick]_vars

\* ------------------------------------------------------------------ C3
FromTick(f) == f.src = TickProc
TickFrames(c) == SelectSeq(Got(c), FromTick)
OrdLess(a, b) == a[1] < b[1] \/ (a[1] = b[1] /\ a[2] < b[2])
\* the tick loop has yet to send the frame with this place of its tick
TickPending(ord) ==
    \E i \in DOMAIN todo[TickProc] :
        /\ todo[TickProc][i].f.ord = ord
        /\ \A j \in 1..(i - 1) : todo[TickProc][j].op \in {"unlock", "runlock"}

\* C3: the frames of the tick loop reach a session in tick order and,
\* within a tick, in the order the events were produced (a lethal mob
\* attack gives combat, player_died, player_moved), none twice and none
\* left out, and each tick ends with one mob_update that carries every mob
\* as it is at the end of that tick; the loop never has two ticks in
\* flight.
C3_TickOrdering ==
    /\ \A op \in {todo[TickProc][i] : i \in DOMAIN todo[TickProc]} :
           FromTick(op.f) => op.f.ord[1] = tick
    /\ \A c \in Sessions :
         LET tf == TickFrames(c) IN
         \A i \in DOMAIN tf :
            /\ i < Len(tf) => OrdLess(tf[i].ord, tf[i + 1].ord)
            /\ tf[i].type # "mob_update" =>
                 IF i < Len(tf)
                 THEN tf[i + 1].ord = <<tf[i].ord[1], tf[i].ord[2] + 1>>
                 ELSE TickPending(<<tf[i].ord[1], tf[i].ord[2] + 1>>)
            /\ tf[i].type = "mob_update" =>
                 /\ DOMAIN tf[i].mobs = DOMAIN mobs
                 /\ tf[i].ord[1] = tick => tf[i].mobs = mobStatesLocked(mobs)
            /\ tf[i].type = "player_died" =>
                 i > 1 /\ tf[i - 1].type = "combat" /\ tf[i - 1].b = tf[i].a
            /\ tf[i].type = "player_moved" =>
                 i > 1 /\ tf[i - 1].type = "player_died" /\ tf[i - 1].a = tf[i].a

\* a session holds, in a row, the frames of a tick in which one mob hit
\* and the other killed, and the mob_update of that tick and of the next
C3_Witness ==
    \E i \in DOMAIN TickFrames("s1") :
        /\ i + 5 <= Len(TickFrames("s1"))
        /\ [k \in 0..5 |-> TickFrames("s1")[i + k].type] =
             [k \in 0..5 |-> <<"combat", "combat", "player_died", "player_moved",
                               "mob_update", "mob_update">>[k + 1]]
        /\ TickFrames("s1")[i + 5].ord[1] = TickFrames("s1")[i + 4].ord[1] + 1

\* ------------------------------------------------------------------ SpecSolo
\* One session and the whole life of the service: Start, the tick loop,
\* every command, the disconnect, Stop.  The writer pump keeps up.
MaxTickSolo == 1

InitSolo ==
    InitWith(MobNearSpawn(20, 100),
             [cmds |-> MaxCmds, ticks |-> MaxTickSolo, pump |-> TRUE,
              calls |-> StartThenStop])

NextSolo ==
    \/ Micro
    \/ RegisterClient("s1")
    \/ Joins({<<"s1", "c1", <<3000, 2500>> >>, <<"s1", "c2", <<1100, 2500>> >>})
    \/ Moves({<<"s1", <<-1000, 0>> >>})
    \/ MoveZero("s1", <<0, 0>>)
    \/ Attacks({<<"s1", "m1">>})
    \/ Leaves({"s1"})
    \/ Starts
    \/ Stops
    \/ Ticks(WanderOne)

SpecSolo == InitSolo /\ [][NextSolo]_vars

\* ------------------------------------------------------------------ C4
\* C4: in every state a tick, another command or a reader of the world can
\* observe (the lock is free), every mob is either alive with
\* 0 < hp <= max_hp or dead with hp = 0 and a respawn counter >= 0: the
\* damage of an attack and the death it causes are one atomic step.
C4_MobInvariant ==
    mu.w = NoProc =>
        \A m \in DOMAIN mobs :
            IF mobs[m].Alive
            THEN 0 < mobs[m].HP /\ mobs[m].HP <= mobs[m].MaxHP
            ELSE mobs[m].HP = 0 /\ mobs[m].RespawnCounter >= 0

\* ------------------------------------------------------------------ C5
\* C5: the player table holds at most one runtime per session: a session
\* that joins again replaces the runtime of its earlier join.
C5_OneRuntimePerSession ==
    \A c \in Sessions :
        Cardinality({k \in DOMAIN players : heap[players[k]].by = c}) <= 1

\* ------------------------------------------------------------------ C6
\* C6: after any move command the position of the player, whatever state
\* it was in before (a player just placed by join included), is walkable
\* for its collision radius: the position every player_moved frame of a
\* move reports has its centre and its four cardinal probes on walkable
\* tiles.
C6_WalkableAfterMove ==
    \A c \in Sessions : \A i \in DOMAIN todo[c] :
        todo[c][i].f.type = "player_moved" =>
            isWalkableWithRadius(todo[c][i].f.x, todo[c][i].f.y, playerCollisionRadius)

\* ------------------------------------------------------------------ C9
\* C9: the world lock, read or write, is never held while a frame is put
\* on a send queue: whenever a goroutine is about to send (the frames of a
\* broadcast, or a frame for the caller alone), in join, move, attack,
\* tick, unregister and broadcast, it holds neither the write lock nor a
\* read lock.
C9_NoLockAcrossSend ==
    \A p \in Procs :
        HeadOp(p) \in {"deliver", "send"} => mu.w # p /\ p \notin mu.r

\* the tick loop is about to send a frame to s1 while the reader of s1 is
\* about to send its own
C9_Witness ==
    /\ HeadOp(TickProc) = "deliver" /\ "s1" \in Head(todo[TickProc]).to
    /\ HeadOp("s1") \in {"deliver", "send"}

\* ------------------------------------------------------------------ C10
\* the session is registered and its character has a runtime in the table
Joined(c) == c \in clients /\ charOf[c] # Nil /\ charOf[c] \in DOMAIN players
\* the frames UnregisterClient(c) broadcasts
IsLeft(f, c) == f.src = c /\ f.type = "player_left" /\ f.a = charOf[c]
IsLeftNotice(f, c) ==
    f.src = c /\ f.type = "broadcast" /\ f.a = charOf[c] /\ f.b = "left the world"
LeftFrames(q, c) == SelectSeq(q, LAMBDA f : IsLeft(f, c) \/ IsLeftNotice(f, c))

\* C10: unregister of a joined session removes the session and its
\* runtime, sends player_left and then the left-the-world notice to
\* exactly the sessions that are joined at that moment and never to the
\* leaving one, closes the queue of the session, and persists once, the
\* last position of the player; unregister of a session that never joined
\* removes the session, closes its queue, sends nothing and persists
\* nothing.  (In Spec the runtime of a session stays in the table until
\* the session leaves, and s1 is joined before s2 connects.)
C10_Unregister ==
    \A c \in Sessions :
        /\ st[c] \in {"closing", "gone", "dead"} =>
             c \notin clients /\ charOf[c] \notin DOMAIN players
        /\ Len(saved[c]) <= 1
        /\ (st[c] \in {"closing", "gone", "dead"} /\ todo[c] = <<>>) =>
             /\ closed[c]
             /\ saved[c] = IF joins[c] > 0
                        THEN <<[char |-> charOf[c], X |-> heap[<<c, joins[c]>>].X,
                                Y |-> heap[<<c, joins[c]>>].Y]>>
                        ELSE <<>>
        /\ (st[c] = "closing" /\ HeadOp(c) = "runlock") =>
             IF \E d \in Sessions : Joined(d)
             THEN /\ Len(todo[c]) >= 2 /\ todo[c][2].op = "deliver"
                  /\ todo[c][2].to = {d \in Sessions : Joined(d)}
                  /\ IsLeft(todo[c][2].f, c) \/ IsLeftNotice(todo[c][2].f, c)
             ELSE Len(todo[c]) >= 2 => todo[c][2].op # "deliver"
        /\ \A d \in Sessions :
             /\ LeftFrames(Got(c), c) = <<>>
             /\ Len(LeftFrames(Got(d), c)) <= 2
             /\ Len(LeftFrames(Got(d), c)) = 2 =>
                  IsLeft(LeftFrames(Got(d), c)[1], c)
                    /\ IsLeftNotice(LeftFrames(Got(d), c)[2], c)
             /\ charOf[c] = Nil => \A i \in DOMAIN Got(d) : Got(d)[i].src # c
        /\ (c = "s2" /\ st[c] = "gone" /\ joins[c] > 0 /\ "s1" \in clients) =>
             Len(LeftFrames(Got("s1"), c)) = 2

\* ------------------------------------------------------------------ SpecMob
\* The life of a mob over more than a respawn delay: it wanders while the
\* zone is empty, chases or attacks the player of the one session, is
\* killed by one hit, respawns.  The session attacks early enough for the
\* respawn to fall in the run.
MaxCmdsMob == 2
MaxTickMob == 54

InitMob ==
    InitWith(MobNearSpawn(20, 100),
             [cmds |-> MaxCmdsMob, ticks |-> MaxTickMob, pump |-> TRUE,
              calls |-> StartThenStop])

NextMob ==
    \/ Micro
    \/ RegisterClient("s1")
    \/ FirstJoins({<<"s1", "c1", <<3000, 2500>> >>, <<"s1", "c2", <<0, 0>> >>})
    \/ (tick + mobRespawnTicks <= lim.ticks /\ Attack("s1", "m1"))
    \/ AttackDeath("s1")
    \/ Starts
    \/ Ticks(WanderOne)

SpecMob == InitMob /\ [][NextMob]_vars

\* ------------------------------------------------------------------ C7
\* C7: every mob is within its patrol radius of its spawn point, in every
\* state and so at the end of every tick, through chase steps, wander
\* steps, deaths and respawns.
C7_PatrolContainment ==
    \A m \in DOMAIN mobs :
        (mobs[m].X - mobs[m].SpawnX) * (mobs[m].X - mobs[m].SpawnX)
          + (mobs[m].Y - mobs[m].SpawnY) * (mobs[m].Y - mobs[m].SpawnY)
            <= mobs[m].PatrolRadius * mobs[m].PatrolRadius

\* the mob has died and respawned, and has chased the player as far as
\* its leash allows: one more step of 0.18 would take it past 0.5
C7_Witness ==
    /\ diedAt["m1"] >= 0 /\ mobs["m1"].Alive
    /\ mobs["m1"].SpawnX - mobs["m1"].X = 2 * mobMoveSpeed
    /\ 3 * mobMoveSpeed > mobs["m1"].PatrolRadius
    /\ \E k \in DOMAIN players : heap[players[k]].X = MapSpawn.X

\* ------------------------------------------------------------------ C8
\* the respawn notices in the events of the tick that has just run
RespawnNotices(m) ==
    Cardinality({i \in DOMAIN todo[TickProc] :
                    /\ todo[TickProc][i].f.type = "broadcast"
                    /\ todo[TickProc][i].f.a = m
                    /\ todo[TickProc][i].f.b = "respawned"})

AtRest == ~ENABLED NextSolo

\* C11: once Stop has been called on a started world and the goroutines
\* have come to rest, every tick loop has exited, no session that was
\* registered when Stop ran is in the session set and no runtime of such
\* a session is in the player table, and each of these sessions has its
\* queue closed and its connection closed.
C11_Shutdown ==
    (quit /\ AtRest) =>
        /\ \A p \in TickProcs : loop[p] # "run" /\ todo[p] = <<>>
        /\ clients \cap atStop = {}
        /\ \A k \in DOMAIN players : heap[players[k]].by \notin atStop
        /\ \A c \in atStop : closed[c] /\ st[c] \notin {"new", "open"}

\* ------------------------------------------------------------------ C13
\* UnregisterClient(c) has returned, or has ended in a panic
Unregistered(c) == st[c] \in {"gone", "dead"}

\* C13: a session whose connection is broken does not stay: when the run
\* has come to rest, in a process that is still alive, its reader has run
\* unregister, and once unregister has run the session is not in the
\* session set and no player runtime of the session is in the player
\* table.
C13_EventuallyUnregistered ==
    \A c \in Sessions :
        /\ (AtRest /\ ~crashed /\ st[c] # "new") => Unregistered(c)
        /\ Unregistered(c) =>
             /\ c \notin clients
             /\ \A k \in DOMAIN players : heap[players[k]].by # c

\* ------------------------------------------------------------------ SpecLife
\* Start and Stop called in any order, one call after the other, while a
\* session connects and joins and the tick loop runs.
MaxCalls == 3
MaxCmdsLife == 1
MaxTickLife == 1

\* the sequences of at most n calls
CallSeqs(n) == UNION {[1..k -> {"Start", "Stop"}] : k \in 0..n}

InitLife ==
    InitWith(MobNearSpawn(20, 100),
             [cmds |-> MaxCmdsLife, ticks |-> MaxTickLife, pump |-> TRUE,
              calls |-> CallSeqs(MaxCalls)])

NextLife ==
    \/ Micro
    \/ RegisterClient("s1")
    \/ FirstJoins({<<"s1", "c1", <<3000, 2500>> >>})
    \/ Starts
    \/ Stops
    \/ Ticks(WanderOne)

SpecLife == InitLife /\ [][NextLife]_vars

\* ------------------------------------------------------------------ C12
\* the goroutines of the tick loop that have not returned
RunningLoops == {p \in TickProcs : loop[p] = "run"}

\* C12: over any sequence of Start and Stop calls at most one tick loop
\* runs at any time, exactly one runs whenever the service is started and
\* no call is in progress, and no call of Start or Stop fails.
C12_ExactlyOneLoop ==
    /\ Cardinality(RunningLoops) <= 1
    /\ (started /\ todo[MainProc] = <<>>) => Cardinality(RunningLoops) = 1
    /\ MainProc \notin panicked

\* ------------------------------------------------------------------ SpecGhost
\* A session that never joins beside one that plays: s1 connects, joins
\* and moves; s2 connects after it and sends move, attack and unknown
\* messages with no character, and may join.
MaxCmdsGhost == 5

InitGhost ==
    InitWith(MobNearSpawn(40, 100),
             [cmds |-> MaxCmdsGhost, ticks |-> 0, pump |-> FALSE,
              calls |-> StartThenStop])

NextGhost ==
    \/ Micro
    \/ RegisterClient("s1")
    \/ (Settled("s1") /\ RegisterClient("s2"))
    \/ FirstJoins({<<"s1", "c1", <<3000, 2500>> >>, <<"s2", "c2", <<0, 0>> >>})
    \/ Moves({<<"s1", <<-1000, 0>> >>, <<"s2", <<-1000, 0>> >>})
    \/ Attack("s2", "m1")
    \/ sendError("s2", "unknown message type")

SpecGhost == InitGhost /\ [][NextGhost]_vars

\* ------------------------------------------------------------------ C14
\* the frames some goroutine is about to put on the queue of c
Incoming(c) ==
    UNION {{todo[p][i].f : i \in {j \in DOMAIN todo[p] :
                                    \/ todo[p][j].op = "deliver" /\ c \in todo[p][j].to
                                    \/ todo[p][j].op = "send" /\ p = c}} : p \in Procs}

\* a session without character sees nothing of the zone
GhostSeesNothing ==
    \A c \in Sessions :
        charOf[c] = Nil =>
            /\ \A i \in DOMAIN Got(c) : Got(c)[i].type = "error"
            /\ \A f \in Incoming(c) : f.type = "error"

\* a command of a session without character, other than a join, changes
\* nothing of the world and leaves the session nothing to broadcast
GhostChangesNothing ==
    \A c \in Sessions :
        (charOf[c] = Nil /\ charOf'[c] = Nil /\ ncmd'[c] = ncmd[c] + 1) =>
            /\ UNCHANGED <<clients, players, heap, mobs, tick, sendq, inflight, saved>>
            /\ \A i \in DOMAIN todo'[c] :
                   \/ todo'[c][i].op = "unlock"
                   \/ todo'[c][i].op = "send" /\ todo'[c][i].f.type = "error"

\* C14: a registered session with no character id is invisible to the
\* world: its move and attack commands change no player, mob or tick
\* state and emit no event, no zone broadcast is ever put on its queue,
\* and all it receives are error frames.
C14_InvisibleWithoutCharacter == []GhostSeesNothing /\ [][GhostChangesNothing]_vars

\* a broadcast has collected its recipients while s2, registered with no
\* character, has sent commands and got an error frame: s2 is not among
\* them
C14_Witness ==
    /\ "s2" \in clients /\ charOf["s2"] = Nil /\ ncmd["s2"] >= 2
    /\ \E i \in DOMAIN Got("s2") : Got("s2")[i].type = "error"
    /\ \E p \in Procs :
         /\ HeadOp(p) = "deliver"
         /\ Head(todo[p]).to = {"s1"}

\* ------------------------------------------------------------------ C15
\* the frames of the join of c
IsWelcome(f, c) == f.type = "welcome" /\ f.src = c
IsJoined(f, c) == f.type = "player_joined" /\ f.src = c
IsJoinNotice(f, c) == f.type = "broadcast" /\ f.b = "joined the world" /\ f.src = c
IsJoinFrame(f, c) == IsWelcome(f, c) \/ IsJoined(f, c) \/ IsJoinNotice(f, c)
\* how many of them d has been sent
CountIn(d, Is(_, _), c) == Len(SelectSeq(Got(d), LAMBDA f : Is(f, c)))
\* the join of c has run to its end
JoinDone(c) ==
    /\ joins[c] = 1
    /\ \A i \in DOMAIN todo[c] :
           todo[c][i].op # "joinlock" /\ ~IsJoinFrame(todo[c][i].f, c)

MaxCmdsJoin == 2

\* the persisted positions of the run
PersistedX == {-1000, 0, 500, 1500, 2500, 5500}
PersistedY == {-1000, 0, 1500, 2500}
JoinInputs == {<<"s1", "c1", <<x, y>> >> : x \in PersistedX, y \in PersistedY}

InitJoin ==
    InitWith(MobNearSpawn(40, 100),
             [cmds |-> MaxCmdsJoin, ticks |-> 0, pump |-> FALSE,
              calls |-> StartThenStop])

NextJoin ==
    \/ Micro
    \/ RegisterClient("s1")
    \/ Joins(JoinInputs)

SpecJoin == InitJoin /\ [][NextJoin]_vars

\* ------------------------------------------------------------------ C16
\* the position the rule gives: the persisted one when both coordinates
\* are positive and the point is walkable, else the spawn point of the
\* map, and (1.5, 1.5) only when that is not usable
RulePosition(pos) ==
    IF pos[1] > 0 /\ pos[2] > 0 /\ isWalkable(pos[1], pos[2]) THEN pos
    ELSE IF isWalkable(MapSpawn.X, MapSpawn.Y) THEN <<MapSpawn.X, MapSpawn.Y>>
         ELSE <<1500, 1500>>

\* C16: the player a join constructs is at the position the rule gives for
\* the persisted position of the character, whatever that position is.
C16_JoinPosition ==
    [][\A j \in JoinInputs :
          JoinBegin(j[1], j[2], j[3]) =>
              <<Head(todo'[j[1]]).arg.X, Head(todo'[j[1]]).arg.Y>> = RulePosition(j[3])]_vars

\* ------------------------------------------------------------------ SpecSlide
\* One session in the corner of the room: it joins at (1.5, 2.5) and moves
\* up and left, along the wall and into it, and back.
MaxCmdsSlide == 7

\* the intent vectors of the run: a diagonal that is normalised, a short
\* one that is not, a long one
SlideInputs == {<<"s1", <<-1000, -1000>> >>, <<"s1", <<500, 0>> >>,
                <<"s1", <<3000, 4000>> >>}

InitSlide ==
    InitWith(MobNearSpawn(40, 100),
             [cmds |-> MaxCmdsSlide, ticks |-> 0, pump |-> FALSE,
              calls |-> StartThenStop])

NextSlide ==
    \/ Micro
    \/ RegisterClient("s1")
    \/ FirstJoins({<<"s1", "c1", <<1500, 2500>> >>})
    \/ Moves(SlideInputs)

SpecSlide == InitSlide /\ [][NextSlide]_vars

\* ------------------------------------------------------------------ C17
\* the player_moved frames of the moves of c, in the order c received them
IsMoved(f, c) == f.type = "player_moved" /\ f.src = c
MovedFrames(c) == SelectSeq(Got(c), LAMBDA f : IsMoved(f, c))
\* the operations a move has left c to run that carry a player_moved frame
MovedOps(c) == {i \in DOMAIN todo'[c] : todo'[c][i].f.type = "player_moved"}

\* a move of a joined player: the X step is committed iff the X-shifted
\* position is walkable for the radius, then the Y step iff the Y-shifted
\* position, with the X just committed, is; the move leaves one
\* player_moved broadcast to the whole zone, with the position after it
SlideStep ==
    \A m \in SlideInputs :
        (Move(m[1], m[2]) /\ charOf[m[1]] \in DOMAIN players) =>
            LET ref == players[charOf[m[1]]]
                old == heap[ref]
                new == heap'[ref]
                sx == MoveStep(m[2][1], m[2][2])[1]
                sy == MoveStep(m[2][1], m[2][2])[2]
            IN /\ sx * sx + sy * sy <= playerMoveSpeed * playerMoveSpeed
               /\ new.X = IF isWalkableWithRadius(old.X + sx, old.Y, playerCollisionRadius)
                          THEN old.X + sx ELSE old.X
               /\ new.Y = IF isWalkableWithRadius(new.X, old.Y + sy, playerCollisionRadius)
                          THEN old.Y + sy ELSE old.Y
               /\ [new EXCEPT !.X = old.X, !.Y = old.Y] = old
               /\ Cardinality(MovedOps(m[1])) = 1
               /\ \A i \in MovedOps(m[1]) :
                     /\ todo'[m[1]][i].op = "bcast" /\ todo'[m[1]][i].skip = Nil
                     /\ todo'[m[1]][i].f.a = charOf[m[1]]
                     /\ todo'[m[1]][i].f.x = new.X /\ todo'[m[1]][i].f.y = new.Y

\* the mover is among the recipients of its player_moved frame, and when
\* its handler has returned it holds one frame for each move it made since
\* its join, the last with the position the player has
MoverIsTold ==
    \A c \in Sessions :
        /\ \A i \in DOMAIN todo[c] :
              (todo[c][i].op = "deliver" /\ IsMoved(todo[c][i].f, c)
                 /\ i > 1 /\ todo[c][i - 1].op = "runlock") => c \in todo[c][i].to
        /\ (todo[c] = <<>> /\ CountIn(c, IsWelcome, c) = 1) =>
              LET mf == MovedFrames(c)
                  j == SelectSeq(Got(c), LAMBDA f : IsWelcome(f, c))[1].ord[1]
              IN /\ Len(mf) = ncmd[c] - j
                 /\ \A i \in DOMAIN mf : mf[i].ord = <<j + i, 1>>
                 /\ mf # <<>> =>
                       /\ mf[Len(mf)].x = heap[players[charOf[c]]].X
                       /\ mf[Len(mf)].y = heap[players[charOf[c]]].Y

\* C17: for a joined player and a non-zero intent vector, move commits
\* the X-shifted position iff it is walkable for radius 0.2, then the
\* Y-shifted position with the committed X iff it is walkable, so a blocked
\* axis keeps its coordinate while the free one advances by its step, of a
\* length of at most 0.35 overall; every such move, one blocked on both
\* axes too, sends exactly one player_moved frame with the position after
\* the step to the zone, the mover included.
C17_SlideXThenY == []MoverIsTold /\ [][SlideStep]_vars

\* the session holds the frames of a move that slid up along the wall (X
\* kept, Y advanced) and of a later move blocked on both axes
C17_Witness ==
    \E i, k \in DOMAIN MovedFrames("s1") :
        /\ i + 1 < k
        /\ MovedFrames("s1")[i].x = MovedFrames("s1")[i + 1].x
        /\ MovedFrames("s1")[i].y > MovedFrames("s1")[i + 1].y
        /\ MovedFrames("s1")[k].x = MovedFrames("s1")[k - 1].x
        /\ MovedFrames("s1")[k].y = MovedFrames("s1")[k - 1].y
        /\ MovedFrames("s1")[k].ord[1] = MovedFrames("s1")[k - 1].ord[1] + 1

\* ------------------------------------------------------------------ SpecFight
\* Two sessions and a mob one hit kills: s1 joins in reach of the mob, s2
\* at the spawn point, out of reach, and may step into reach; both attack
\* the mob or a mob that does not exist, and send moves of no length.
MaxCmdsFight == 5

AttackInputs == {<<c, m>> : c \in Sessions, m \in {"m1", "m9"}}

InitFight ==
    InitWith(MobNearSpawn(20, 100),
             [cmds |-> MaxCmdsFight, ticks |-> 0, pump |-> TRUE,
              calls |-> StartThenStop])

NextFight ==
    \/ Micro
    \/ RegisterClient("s1")
    \/ (Settled("s1") /\ RegisterClient("s2"))
    \/ FirstJoins({<<"s1", "c1", <<3000, 2500>> >>, <<"s2", "c2", <<0, 0>> >>})
    \/ Moves({<<"s2", <<1000, 0>> >>})
    \/ (\E c \in Sessions : MoveZero(c, <<0, 0>>))
    \/ Attacks(AttackInputs)

SpecFight == InitFight /\ [][NextFight]_vars

\* ------------------------------------------------------------------ C18
\* the attack of a joined session that must be refused: the mob is
\* unknown, dead, or farther than the attack range
UnknownOrDead(m) == m \notin DOMAIN mobs \/ ~mobs[m].Alive
TooFar(c, m) ==
    LET pr == heap[players[charOf[c]]]
    IN Dist2(pr.X, pr.Y, mobs[m].X, mobs[m].Y) > playerAttackRange * playerAttackRange
RefusedAttack(c, m) ==
    /\ charOf[c] \in DOMAIN players
    /\ UnknownOrDead(m) \/ TooFar(c, m)

\* the operations of a kind a handler has left to run
OpsOf(c, kind) == SelectSeq(todo[c], LAMBDA o : o.op = kind)

\* the error frames a handler has yet to send, with the given message
ErrorsPending(c, msg) ==
    {i \in DOMAIN todo[c] : /\ todo[c][i].op = "send"
                            /\ todo[c][i].f.type = "error"
                            /\ todo[c][i].f.b = msg}

\* a refused attack changes nothing but the caller's pending work, which
\* is one error frame to its own session
RefusalStep ==
    \A a \in AttackInputs :
        (Attack(a[1], a[2]) /\ RefusedAttack(a[1], a[2])) =>
            /\ UNCHANGED <<mobs, heap, players, clients, charOf, sendq, wire, st,
                           closed, panicked, diedAt, tick>>
            /\ LET ops == todo'[a[1]]
                   sends == SelectSeq(ops, LAMBDA o : o.op = "send")
               IN /\ Len(sends) = 1
                  /\ sends[1].f.type = "error"
                  /\ sends[1].f.src = a[1]
                  /\ (~UnknownOrDead(a[2])) => sends[1].f.b = "target out of range"
                  /\ \A i \in DOMAIN ops : ops[i].op \in {"unlock", "send"}

\* a move of no length changes nothing and leaves nothing to send
ZeroMoveStep ==
    \A c \in Sessions :
        MoveZero(c, <<0, 0>>) =>
            UNCHANGED <<mobs, heap, players, clients, charOf, sendq, wire, st, closed,
                        panicked, diedAt, tick, todo, mu, inflight, saved>>

\* an error frame is never on its way to anyone but the session whose
\* command was refused
ErrorToCallerOnly ==
    \A p \in Procs : \A i \in DOMAIN todo[p] :
        todo[p][i].f.type = "error" =>
            /\ todo[p][i].op = "send" /\ p \in Sessions /\ todo[p][i].f.src = p

\* C18: an attack on a mob out of reach, dead or unknown leaves one error
\* frame for the caller alone ("target out of range" when the mob is alive
\* and too far), no combat frame, and every mob and player as it was; a
\* move of no length changes nothing and sends nothing; the session stays
\* open after either.
C18_RefusedCommands ==
    /\ []ErrorToCallerOnly
    /\ [][RefusalStep /\ ZeroMoveStep]_vars

\* s1 was refused an unknown mob and s2 a mob out of reach; both error
\* frames wait to be sent, the mob is untouched and both sessions are open
C18_Witness ==
    /\ ErrorsPending("s1", "invalid mob target") # {}
    /\ ErrorsPending("s2", "target out of range") # {}
    /\ mobs["m1"].Alive /\ mobs["m1"].HP = 20
    /\ st["s1"] = "open" /\ st["s2"] = "open"

\* ------------------------------------------------------------------ C19
\* the frames a handler has yet to send, in order, as <<operation, type>>
PendingFrames(ops) ==
    LET fs == SelectSeq(ops, LAMBDA o : o.op \in {"bcast", "send"})
    IN [i \in DOMAIN fs |-> <<fs[i].op, fs[i].f.type>>]

\* an attack in reach of a live mob takes 20 + (level - 1) * 3 from its hp
\* and leaves one combat frame for the zone
HitStep ==
    \A a \in AttackInputs :
        LET c == a[1]
            m == a[2]
        IN (Attack(c, m) /\ charOf[c] \in DOMAIN players /\ ~RefusedAttack(c, m)) =>
              LET dmg == 20 + (heap[players[charOf[c]]].Level - 1) * 3
                  fs == SelectSeq(todo'[c], LAMBDA o : o.op \in {"bcast", "send"})
              IN /\ mobs' = [mobs EXCEPT ![m].HP = mobs[m].HP - dmg]
                 /\ heap' = heap
                 /\ PendingFrames(todo'[c]) = << <<"bcast", "combat">> >>
                 /\ fs[1].skip = Nil
                 /\ fs[1].f.a = charOf[c] /\ fs[1].f.b = m /\ fs[1].f.n = dmg

\* the attack kills when it finds the mob alive with no hp left: the mob
\* dies, the attacker gains 25 experience, and the death frames follow;
\* an attack that does not kill changes nothing and sends nothing more
KillStep ==
    \A c \in Sessions :
        AttackDeath(c) =>
            LET m == Head(todo[c]).arg.target
                ref == Head(todo[c]).arg.pr
                kills == mobs[m].Alive /\ mobs[m].HP <= 0
            IN IF kills
               THEN /\ mobs' = [mobs EXCEPT ![m].Alive = FALSE, ![m].HP = 0,
                                            ![m].RespawnCounter = 50]
                    /\ heap' = [heap EXCEPT ![ref] =
                                  LevelUp([heap[ref] EXCEPT !.Experience = @ + 25,
                                                            !.kills = @ + 1])]
                    /\ PendingFrames(todo'[c]) =
                         << <<"bcast", "mob_died">>, <<"bcast", "broadcast">>,
                            <<"send", "player_update">> >>
               ELSE /\ mobs' = mobs
                    /\ heap' = heap
                    /\ PendingFrames(todo'[c]) = <<>>

\* C19: an attack in reach of a live mob subtracts 20 + (level - 1) * 3
\* from its hp and emits one combat frame to the zone; the attack that
\* brings the mob down makes it dead with hp 0 and respawn counter 50,
\* gives the attacker 25 experience and emits mob_died, the notice and
\* player_update after the combat frame; an attack that does not kill
\* emits only the combat frame and grants no experience.
C19_KillAndXP == [][HitStep /\ KillStep]_vars

\* ------------------------------------------------------------------ SpecLevel
\* A session that joined at (3.0, 2.5), in reach of a mob one hit kills,
\* and has killed it k times, for every k below MaxKills; the mob has
\* respawned, the tick loop runs, and the session attacks once more.
MaxKills == 100
MaxCmdsLevel == 1
MaxTickLevel == 2

\* the runtime of a player after k kills
RECURSIVE AfterKills(_, _)
AfterKills(pl, k) ==
    IF k = 0 THEN pl
    ELSE LET next == Killed(pl)
         IN IF next.kills = pl.kills + 1 THEN AfterKills(next, k - 1) ELSE pl

InitLevel ==
    \E k \in 0..(MaxKills - 1) :
        LET mobJson == MobNearSpawn(20, 30)
            ref == <<"s1", 1>>
        IN /\ lim = [cmds |-> k + 1 + MaxCmdsLevel,
                     ticks |-> mobRespawnTicks * k + MaxTickLevel,
                     pump |-> TRUE, calls |-> StartThenStop]
           /\ clients = {"s1"}
           /\ charOf = [c \in Sessions |-> IF c = "s1" THEN "c1" ELSE Nil]
           /\ players = ("c1" :> ref)
           /\ heap = (ref :> AfterKills(NewPlayer("s1", "c1", 3000, 2500), k))
           /\ mobs = [m \in DOMAIN mobJson |-> NewMob(mobJson[m])]
           /\ tick = mobRespawnTicks * k
           /\ started = TRUE
           /\ quit = FALSE
           /\ mu = [w |-> NoProc, r |-> {}]
           /\ sendq = [c \in Sessions |-> <<>>]
           /\ closed = [c \in Sessions |-> FALSE]
           /\ wire = [c \in Sessions |-> <<>>]
           /\ st = [c \in Sessions |-> IF c = "s1" THEN "open" ELSE "new"]
           /\ todo = [p \in Procs |-> <<>>]
           /\ ncmd = [c \in Sessions |-> IF c = "s1" THEN k + 1 ELSE 0]
           /\ joins = [c \in Sessions |-> IF c = "s1" THEN 1 ELSE 0]
           /\ loop = [p \in TickProcs |-> IF p = TickProc THEN "run" ELSE "off"]
           /\ mainpc = <<"Start">>
           /\ inflight = {}
           /\ saved = [c \in Sessions |-> <<>>]
           /\ panicked = {}
           /\ diedAt = [m \in DOMAIN mobJson |-> -1]
           /\ atStop = {}
           /\ authdb = [users |-> {}, n |-> 0, call |-> <<>>, reply |-> <<>>]
           /\ chardb = NoWrites
           /\ wpump = [c \in Sessions |-> IF c = "s1" THEN "run" ELSE "off"]
           /\ charcalls = NoCalls

NextLevel ==
    \/ Micro
    \/ Attacks({<<"s1", "m1">>})
    \/ Ticks(WanderOne)

SpecLevel == InitLevel /\ [][NextLevel]_vars

\* ------------------------------------------------------------------ C20
\* the level, max hp and experience a player has after one grant of xp
\* experience at level 1
GrantedAtOnce(xp) ==
    LET pl == LevelUp([Level |-> 1, MaxHP |-> 100, HP |-> 100, Experience |-> xp])
    IN <<pl.Level, pl.MaxHP, pl.Experience>>

PlayerInvariant(pl) ==
    /\ pl.Level >= 1
    /\ 0 <= pl.Experience /\ pl.Experience < pl.Level * 100
    /\ pl.MaxHP = 100 + 20 * (pl.Level - 1)
    /\ 0 <= pl.HP /\ pl.HP <= pl.MaxHP

\* 100 * (1 + 2 + ... + (level - 1)) + experience = 25 * kills
LevelUpLaw(pl) ==
    /\ 100 * (((pl.Level - 1) * pl.Level) \div 2) + pl.Experience = 25 * pl.kills
    /\ <<pl.Level, pl.MaxHP, pl.Experience>> = GrantedAtOnce(25 * pl.kills)
    /\ pl.kills = 100 => (pl.Level = 7 /\ pl.MaxHP = 220 /\ pl.Experience = 400)

\* C20: every player has level >= 1, 0 <= experience < level * 100,
\* max_hp = 100 + 20 * (level - 1) and 0 <= hp <= max_hp; after k kills
\* 100 * (1 + ... + (level - 1)) + experience = 25 * k, the same level,
\* max_hp and experience as one grant of 25 * k gives, and after 100
\* kills level 7, max_hp 220, experience 400.
C20_PlayerInvariants ==
    \A r \in DOMAIN heap : PlayerInvariant(heap[r]) /\ LevelUpLaw(heap[r])

\* the hundredth kill has just happened
C20_Witness ==
    /\ ~mobs["m1"].Alive
    /\ \E r \in DOMAIN heap : heap[r].kills = 100 /\ heap[r].Level = 7

\* ------------------------------------------------------------------ SpecBite
\* One session that joins in reach of a mob of damage 60, so that the
\* second hit brings the player down, and may walk west, out of the mob's
\* reach; the service is started once the session has joined and the tick
\* loop runs long enough for two attacks.
MaxCmdsBite == 2
MaxTickBite == 10

InitBite ==
    InitWith(MobNearSpawn(60, 60),
             [cmds |-> MaxCmdsBite, ticks |-> MaxTickBite, pump |-> FALSE,
              calls |-> StartThenStop])

NextBite ==
    \/ Micro
    \/ RegisterClient("s1")
    \/ FirstJoins({<<"s1", "c1", <<3000, 2500>> >>})
    \/ Moves({<<"s1", <<-1000, 0>> >>})
    \/ (Settled("s1") /\ Start)
    \/ GoLoop
    \/ Ticks(WanderOne)

SpecBite == InitBite /\ [][NextBite]_vars

\* ------------------------------------------------------------------ C21
\* the payload of a frame
Payload(f) == <<f.type, f.a, f.b, f.x, f.y, f.n>>

\* the events a tick has left to broadcast, before its mob_update
EventsOf(ops) ==
    LET fs == SelectSeq(ops, LAMBDA o : o.op = "bcast" /\ o.f.type # "mob_update")
    IN [i \in DOMAIN fs |-> Payload(fs[i].f)]

\* the mob is alive, its cooldown is over and the player c1 stands within
\* its attack range
InReach(m) ==
    /\ "c1" \in DOMAIN players
    /\ mobs[m].Alive
    /\ LET pl == heap[players["c1"]]
       IN Dist2(pl.X, pl.Y, mobs[m].X, mobs[m].Y) <= 1100 * 1100
Bites(m) == InReach(m) /\ mobs[m].AttackCooldown = 0

\* the tick in which the mob bites: one combat frame, the damage taken
\* from the hp, and at hp <= 0 the player back at the spawn point with
\* full hp, player_died and player_moved following the combat frame
BiteStep ==
    (tick' # tick /\ Bites("m1")) =>
        LET ref == players["c1"]
            pl == heap[ref]
            dmg == mobs["m1"].Damage
        IN IF pl.HP - dmg > 0
           THEN /\ heap'[ref] = [pl EXCEPT !.HP = pl.HP - dmg]
                /\ EventsOf(todo'[TickProc]) = << <<"combat", "m1", "c1", 0, 0, dmg>> >>
           ELSE /\ heap'[ref] = [pl EXCEPT !.HP = pl.MaxHP, !.X = MapSpawn.X,
                                           !.Y = MapSpawn.Y]
                /\ EventsOf(todo'[TickProc]) =
                      << <<"combat", "m1", "c1", 0, 0, dmg>>,
                         <<"player_died", "c1", "", 0, 0, 0>>,
                         <<"player_moved", "c1", "", MapSpawn.X, MapSpawn.Y, 0>> >>

\* C21: a mob attack emits one combat frame {attacker: mob, target:
\* character, damage: mob.damage} and takes the damage from the player's
\* hp; when the result is <= 0 the player has max_hp again and stands on
\* the spawn point in the same tick, and player_died, then player_moved
\* with the new position, follow the combat frame; level and experience
\* do not change.
C21_MobAttack == [][BiteStep]_vars

\* the tick of the second bite has run: the player is back at the spawn
\* point with full hp and the three frames wait to be sent
C21_Witness ==
    /\ mu.w = TickProc
    /\ Len(EventsOf(todo[TickProc])) = 3
    /\ "c1" \in DOMAIN players
    /\ heap[players["c1"]].HP = 100
    /\ heap[players["c1"]].X = MapSpawn.X /\ heap[players["c1"]].Y = MapSpawn.Y

\* ------------------------------------------------------------------ C22
\* the combat frames of the mob m that the session c has been sent
BiteTicks(c, m) ==
    {Got(c)[i].ord[1] : i \in {j \in DOMAIN Got(c) :
         /\ Got(c)[j].type = "combat" /\ Got(c)[j].a = m /\ Got(c)[j].src = TickProc}}

\* a live mob with its target in reach attacks iff its cooldown is 0 and
\* then has cooldown 7; any live mob with a positive cooldown counts it
\* down by one and does not attack
CooldownStep ==
    tick' # tick =>
        \A m \in DOMAIN mobs :
            /\ Bites(m) => mobs'[m].AttackCooldown = 7
            /\ (mobs[m].Alive /\ mobs[m].AttackCooldown > 0) =>
                  /\ mobs'[m].AttackCooldown = mobs[m].AttackCooldown - 1
                  /\ heap' = heap
                  /\ EventsOf(todo'[TickProc]) = <<>>
            /\ (InReach(m) /\ mobs[m].AttackCooldown = 0) =>
                  EventsOf(todo'[TickProc]) # <<>>

CooldownInRange ==
    /\ \A m \in DOMAIN mobs : mobs[m].AttackCooldown \in 0..7
    /\ \A c \in Sessions : \A t1, t2 \in BiteTicks(c, "m1") :
           t1 < t2 => t2 - t1 >= 8

\* C22: a live mob whose target is within 1.1 attacks on a tick only if
\* its attack cooldown is 0, and then sets it to 7; on every other tick
\* with a positive cooldown it counts the cooldown down by one and does
\* not attack; the cooldown stays in 0..7 and two attacks of a mob are at
\* least 8 ticks apart.
C22_AttackCooldown == []CooldownInRange /\ [][CooldownStep]_vars

\* the session has been sent the combat frames of two attacks
C22_Witness ==
    /\ Cardinality(BiteTicks("s1", "m1")) = 2
    /\ mobs["m1"].AttackCooldown = 7

\* ------------------------------------------------------------------ SpecSave
\* Two sessions that join; s1 moves and goes away; each call of
\* UpdatePosition ends in any of its three ways.
MaxCmdsSave == 3

InitSave ==
    InitWith(MobNearSpawn(40, 100),
             [cmds |-> MaxCmdsSave, ticks |-> 0, pump |-> FALSE,
              calls |-> StartThenStop])

NextSave ==
    \/ Micro
    \/ RegisterClient("s1")
    \/ (Settled("s1") /\ RegisterClient("s2"))
    \/ FirstJoins({<<"s1", "c1", <<3000, 2500>> >>, <<"s2", "c2", <<0, 0>> >>})
    \/ Moves({<<"s1", <<-1000, 0>> >>})
    \/ (\E job \in inflight, outcome \in UpdateOutcomes : UpdateDone(job, outcome))
    \/ Leaves({"s1"})

SpecSave == InitSave /\ [][NextSave]_vars

\* ------------------------------------------------------------------ C23
\* the world and everything sent or still to be sent to a session
WorldAndFrames == <<clients, charOf, players, heap, mobs, tick, sendq, wire, closed, st,
                    panicked>>

\* the step in which a call of UpdatePosition ends leaves the world and
\* the queues as they are, and the handler of an unregister goes on to
\* the close of the queue, whatever the outcome
OutcomeStep ==
    /\ \A c \in Sessions, outcome \in UpdateOutcomes :
          PersistResult(c, outcome) =>
              /\ UNCHANGED WorldAndFrames
              /\ todo' = [todo EXCEPT ![c] = <<Op("close", NoFrame, Nil, {}, <<>>)>>]
    /\ \A outcome \in UpdateOutcomes :
          (\E job \in inflight : UpdateDone(job, outcome)) =>
              UNCHANGED <<WorldAndFrames, todo>>

\* no frame on its way to a client speaks of a save
NoSaveFrame ==
    \A p \in Procs : \A i \in DOMAIN todo[p] :
        todo[p][i].f.type = "error" => todo[p][i].f.b # "position save failed"

\* C23: whether a call of UpdatePosition made for a move or an unregister
\* succeeds, fails or times out, the world and the frames of every
\* session are the same: a failure sends no frame and rolls back no
\* position.
C23_CollaboratorFailures == []NoSaveFrame /\ [][OutcomeStep]_vars

\* s1 has moved and gone; the save of its unregister failed (nothing was
\* written), and the player_left frame reached s2
C23_Witness ==
    /\ st["s1"] = "gone" /\ saved["s1"] = <<>> /\ ncmd["s1"] = 2
    /\ inflight = {}
    /\ \E i \in DOMAIN Got("s2") : Got("s2")[i].type = "player_left"

\* ------------------------------------------------------------------ SpecWire
\* Two sessions, s1 of the account that owns c1 and s2 of the account that
\* owns c2.  s2 connects first and asks to join c2 or c1; then s1 connects
\* and its reader reads any of the messages below.
MaxCmdsWire == 3

\* text that is no JSON object
Malformed == [wellFormed |-> FALSE]
JoinMsg(id) == [wellFormed |-> TRUE, type |-> "join", character_id |-> id]
\* the attack message of the README, lines 29 and 150
ReadmeAttack == [wellFormed |-> TRUE, type |-> "attack", targetId |-> "m1"]

RawMessages ==
    {Malformed, JoinMsg("c1"), JoinMsg("c2"), JoinMsg("c9"), JoinMsg("zzz"),
     [wellFormed |-> TRUE, type |-> "move", dx |-> -1000, dy |-> 0],
     [wellFormed |-> TRUE, type |-> "attack", target_id |-> "m1"],
     ReadmeAttack,
     [wellFormed |-> TRUE, type |-> "attack", target_id |-> "  "],
     [wellFormed |-> TRUE, type |-> "attack"],
     [wellFormed |-> TRUE, type |-> "dance"]}

WireInputs ==
    {<<"s1", raw>> : raw \in RawMessages}
      \cup {<<"s2", JoinMsg("c2")>>, <<"s2", JoinMsg("c1")>>}

InitWire ==
    InitWith(MobNearSpawn(40, 100),
             [cmds |-> MaxCmdsWire, ticks |-> 0, pump |-> FALSE,
              calls |-> StartThenStop])

NextWire ==
    \/ Micro
    \/ RegisterClient("s2")
    \/ (Settled("s2") /\ RegisterClient("s1"))
    \/ Reads(WireInputs)

SpecWire == InitWire /\ [][NextWire]_vars

\* ------------------------------------------------------------------ C24
\* the value under a key of a message, "" when the key is absent
KeyOf(raw, key) == IF key \in DOMAIN raw THEN raw[key] ELSE ""

\* the character of the message is one of the session's account
Resolves(c, raw, db) ==
    /\ db = "ok"
    /\ KeyOf(raw, "character_id") \in DOMAIN CharacterRows
    /\ CharacterRows[KeyOf(raw, "character_id")].UserID = AccountID(c)

\* the error the protocol answers a well-formed message with, or ""
ProtocolError(c, raw, db) ==
    LET type == KeyOf(raw, "type")
    IN IF type \notin {"join", "move", "attack"} THEN "unknown message type"
       ELSE IF type = "join" /\ KeyOf(raw, "character_id") \notin UUIDs
            THEN "invalid character_id"
       ELSE IF type = "join" /\ ~Resolves(c, raw, db) THEN "character not found"
       ELSE IF type = "attack" /\ KeyOf(raw, "target_id") \in {"", " ", "  "}
            THEN "target_id is required"
       ELSE ""

\* the world, the queues and the sessions
WorldState == <<clients, charOf, players, heap, mobs, tick, sendq, wire, closed, st,
                panicked, inflight, saved>>

\* a message in error changes nothing and leaves its session one error
\* frame to send to itself
ProtocolErrorStep ==
    \A in \in WireInputs, db \in DbOutcomes :
        (/\ in[2].wellFormed
         /\ ProtocolError(in[1], in[2], db) # ""
         /\ ReadMessage(in[1], in[2], db)) =>
            /\ UNCHANGED WorldState
            /\ in[1] \in clients /\ st[in[1]] = "open"
            /\ \A p \in Procs \ {in[1]} : todo'[p] = todo[p]
            /\ Len(todo'[in[1]]) = 1
            /\ todo'[in[1]][1].op = "send"
            /\ Payload(todo'[in[1]][1].f) =
                  <<"error", "", ProtocolError(in[1], in[2], db), 0, 0, 0>>

\* the error frames a session holds are its own
OwnErrorsOnly ==
    \A c \in Sessions : \A i \in DOMAIN Got(c) :
        Got(c)[i].type = "error" => Got(c)[i].src = c

\* C24: a message of unknown type, a join with an unparsable
\* character_id, a join for a character the character service does not
\* resolve for the account of the session, and an attack with an empty or
\* blank target_id each leave exactly one error frame, with the message
\* of the case, for the offending session, change nothing of the world,
\* and leave the session registered and reading.
C24_ProtocolErrors == []OwnErrorsOnly /\ [][ProtocolErrorStep]_vars

\* s1 was answered an error and then joined: it holds the error frame
\* and, after it, its welcome
C24_Witness ==
    \E i, j \in DOMAIN Got("s1") :
        /\ i < j
        /\ Got("s1")[i].type = "error" /\ Got("s1")[i].b = "invalid character_id"
        /\ Got("s1")[j].type = "welcome"

\* ------------------------------------------------------------------ C25
\* C25: a message that cannot be decoded is answered with an error frame
\* to its session, and the session goes on: it stays registered, keeps
\* its player runtime, and its later messages are processed.
C25_MalformedMessage ==
    [][\A in \in WireInputs, db \in DbOutcomes :
          (~in[2].wellFormed /\ ReadMessage(in[1], in[2], db)) =>
              /\ clients' = clients /\ players' = players /\ st'[in[1]] = "open"
              /\ \E i \in DOMAIN todo'[in[1]] :
                    /\ todo'[in[1]][i].op = "send"
                    /\ todo'[in[1]][i].f.type = "error"]_vars

\* ------------------------------------------------------------------ C26
\* every character id of a session and every player runtime is of a
\* character of the account of the session
OwnedOnly ==
    /\ \A c \in Sessions :
          charOf[c] # Nil =>
              /\ charOf[c] \in DOMAIN CharacterRows
              /\ CharacterRows[charOf[c]].UserID = AccountID(c)
    /\ \A r \in DOMAIN heap :
          /\ heap[r].ID \in DOMAIN CharacterRows
          /\ CharacterRows[heap[r].ID].UserID = AccountID(heap[r].by)

\* a join that names a character of another account, or of none, creates
\* no runtime, sets no character id and leaves nothing for another session
DeniedJoinStep ==
    \A in \in WireInputs, db \in DbOutcomes :
        (/\ in[2].wellFormed
         /\ KeyOf(in[2], "type") = "join"
         /\ ~Resolves(in[1], in[2], db)
         /\ ReadMessage(in[1], in[2], db)) =>
            /\ UNCHANGED <<players, heap, charOf, joins, sendq, wire>>
            /\ \A p \in Procs \ {in[1]} : todo'[p] = todo[p]
            /\ \A i \in DOMAIN todo'[in[1]] : todo'[in[1]][i].op = "send"

\* C26: a player runtime is created, and the character id of a session
\* set, only for a character the character service resolved as owned by
\* the account of the session; a join that names a character of another
\* account or a character that does not exist creates no runtime, leaves
\* the character id as it was and sends nothing to another session.
C26_JoinAuthorization == []OwnedOnly /\ [][DeniedJoinStep]_vars

\* s2 has joined its character; s1 asked for it too and was refused: it
\* has no character, there is one runtime, and s1 holds the error
C26_Witness ==
    /\ charOf["s2"] = "c2" /\ charOf["s1"] = Nil
    /\ DOMAIN players = {"c2"} /\ Cardinality(DOMAIN heap) = 1
    /\ \E i \in DOMAIN Got("s1") :
          Got("s1")[i].type = "error" /\ Got("s1")[i].b = "character not found"

\* ------------------------------------------------------------------ C28
\* C28: the attack message of the README, with the mob id under the key
\* targetId, sent by a joined player within range of the live mob, takes
\* hp from the mob and emits a combat frame.
C28_ReadmeAttack ==
    [][\A db \in DbOutcomes :
          (/\ charOf["s1"] \in DOMAIN players
           /\ ~RefusedAttack("s1", ReadmeAttack.targetId)
           /\ ReadMessage("s1", ReadmeAttack, db)) =>
              /\ mobs'["m1"].HP < mobs["m1"].HP
              /\ \E i \in DOMAIN todo'["s1"] :
                    /\ todo'["s1"][i].op = "bcast"
                    /\ todo'["s1"][i].f.type = "combat"]_vars

\* ------------------------------------------------------------------ SpecLoad
\* NewService on a map file that is the map of the other runs or one of
\* its corruptions; sessions then connect and go, one joins with a
\* character stored on the corner wall (a wall of every map here, so that
\* it is put on the spawn point), and the service is started and stopped.
\* A map file: its path, whether it can be read, whether its text parses
\* as MapJSON, and the fields of the MapJSON.
StarterDoc ==
    [path |-> "maps/starter.json", readable |-> TRUE, parses |-> TRUE,
     Width |-> MapWidth, Height |-> MapHeight, Spawn |-> MapSpawn, Rows |-> MapRows,
     NPCs |-> << [ID |-> "npc-1", Role |-> "guide", X |-> 3000, Y |-> 3000] >>,
     Mobs |-> MobNearSpawn(40, 100)]

MapDocs ==
    {StarterDoc,
     [StarterDoc EXCEPT !.path = ""],
     [StarterDoc EXCEPT !.readable = FALSE],
     [StarterDoc EXCEPT !.parses = FALSE],
     [StarterDoc EXCEPT !.Width = 0],
     [StarterDoc EXCEPT !.Width = -7],
     [StarterDoc EXCEPT !.Height = 0],
     [StarterDoc EXCEPT !.Height = 4],
     [StarterDoc EXCEPT !.Rows = SubSeq(MapRows, 1, 4)],
     [StarterDoc EXCEPT !.Rows = Append(MapRows, MapRows[5])],
     [StarterDoc EXCEPT !.Rows[3] = SubSeq(MapRows[3], 1, 6)],
     [StarterDoc EXCEPT !.Rows[5] = Append(MapRows[5], "#")],
     [StarterDoc EXCEPT !.Width = 6],
     [StarterDoc EXCEPT !.Rows[2][3] = "x"],
     [StarterDoc EXCEPT !.Rows[4][4] = " "],
     [StarterDoc EXCEPT !.Mobs = MobPair(0, 0)]}

\* a loadWorldMap that does not compare the rows with the width
loadWorldMapRagged(doc) ==
    IF doc.path = "" THEN [err |-> "empty world map path"]
    ELSE IF ~doc.readable THEN [err |-> "read world map"]
    ELSE IF ~doc.parses THEN [err |-> "parse world map json"]
    ELSE IF doc.Width <= 0 \/ doc.Height <= 0 THEN [err |-> "invalid map dimensions"]
    ELSE IF Len(doc.Rows) # doc.Height THEN [err |-> "rows count must equal height"]
    ELSE IF \E y \in 1..doc.Height : \E x \in DOMAIN doc.Rows[y] :
                doc.Rows[y][x] \notin {".", "~", "#", "^"}
         THEN [err |-> "unknown tile rune"]
    ELSE [err |-> "",
          map |-> [Width |-> doc.Width, Height |-> doc.Height, Spawn |-> doc.Spawn,
                   Tiles |-> [y \in 1..doc.Height |->
                                [x \in DOMAIN doc.Rows[y] |-> TileOfRune(doc.Rows[y][x])]]],
          npcs |-> doc.NPCs,
          mobs |-> doc.Mobs]

\* loadWorldMap, lines 622-700: the map, the NPCs and the mobs of the
\* file, or an error
loadWorldMap(doc) ==
    IF doc.path = "" THEN [err |-> "empty world map path"]
    ELSE IF ~doc.readable THEN [err |-> "read world map"]
    ELSE IF ~doc.parses THEN [err |-> "parse world map json"]
    ELSE IF doc.Width <= 0 \/ doc.Height <= 0 THEN [err |-> "invalid map dimensions"]
    ELSE IF Len(doc.Rows) # doc.Height THEN [err |-> "rows count must equal height"]
    ELSE IF \E y \in 1..doc.Height : Len(doc.Rows[y]) # doc.Width
         THEN [err |-> "row width mismatch"]
    ELSE IF \E y \in 1..doc.Height : \E x \in 1..doc.Width :
                doc.Rows[y][x] \notin {".", "~", "#", "^"}
         THEN [err |-> "unknown tile rune"]
    ELSE [err |-> "",
          map |-> [Width |-> doc.Width, Height |-> doc.Height, Spawn |-> doc.Spawn,
                   Tiles |-> [y \in 1..doc.Height |->
                                [x \in 1..doc.Width |-> TileOfRune(doc.Rows[y][x])]]],
          npcs |-> doc.NPCs,
          mobs |-> doc.Mobs]

\* fallbackWorld, lines 703-718
fallbackWorld ==
    [err |-> "",
     map |-> [Width |-> 50, Height |-> 50, Spawn |-> [X |-> 2500, Y |-> 2500],
              Tiles |-> [y \in 1..50 |->
                           [x \in 1..50 |->
                              IF x = 1 \/ y = 1 \/ x = 50 \/ y = 50
                              THEN "wall" ELSE "grass"]]],
     npcs |-> << [ID |-> "npc-merchant-1", Role |-> "merchant", X |-> 5000, Y |-> 5000] >>,
     mobs |-> [m \in {"mob-slime-1"} |->
                 [X |-> 14000, Y |-> 12000, HP |-> 60, Damage |-> 8,
                  PatrolRadius |-> 6000]]]

\* NewService, lines 105-109: the world of the file, else the fallback
worldOf(doc) ==
    LET r == loadWorldMap(doc)
    IN IF r.err # "" THEN fallbackWorld ELSE r

MaxCmdsLoad == 1

InitLoad ==
    \E doc \in MapDocs :
        InitWith(worldOf(doc).mobs,
                 [cmds |-> MaxCmdsLoad, ticks |-> 0, pump |-> FALSE,
                  calls |-> StartThenStop, doc |-> doc])

NextLoad ==
    \/ Micro
    \/ \E c \in Sessions : RegisterClient(c)
    \/ FirstJoins({<<"s1", "c1", <<0, 0>> >>})
    \/ Leaves(Sessions)
    \/ Starts
    \/ Stops

SpecLoad == InitLoad /\ [][NextLoad]_vars

\* ------------------------------------------------------------------ C27
\* the failures of a load the claim lists
LoadFails(doc) ==
    \/ doc.path = ""
    \/ ~doc.readable
    \/ ~doc.parses
    \/ doc.Width <= 0 \/ doc.Height <= 0
    \/ Len(doc.Rows) # doc.Height
    \/ \E y \in DOMAIN doc.Rows : Len(doc.Rows[y]) # doc.Width
    \/ \E y \in DOMAIN doc.Rows : \E x \in DOMAIN doc.Rows[y] :
          doc.Rows[y][x] \notin {".", "~", "#", "^"}

\* the tile under a point of a map, and whether one can stand on it
TileUnder(map, pt) == map.Tiles[(pt.Y \div 1000) + 1][(pt.X \div 1000) + 1]
SpawnWalkable(map) ==
    /\ map.Spawn.X >= 0 /\ map.Spawn.X < 1000 * map.Width
    /\ map.Spawn.Y >= 0 /\ map.Spawn.Y < 1000 * map.Height
    /\ TileUnder(map, map.Spawn) \notin {"wall", "water"}

\* the built-in world
IsBuiltIn(w) ==
    /\ w.map.Width = 50 /\ w.map.Height = 50
    /\ DOMAIN w.map.Tiles = 1..50
    /\ \A y \in 1..50 :
          /\ DOMAIN w.map.Tiles[y] = 1..50
          /\ \A x \in 1..50 :
                w.map.Tiles[y][x] = IF x \in {1, 50} \/ y \in {1, 50} THEN "wall"
                                    ELSE "grass"
    /\ SpawnWalkable(w.map)
    /\ Len(w.npcs) = 1
    /\ w.npcs[1].Role = "merchant" /\ w.npcs[1].X = 5000 /\ w.npcs[1].Y = 5000
    /\ DOMAIN w.mobs = {"mob-slime-1"}

\* C27: the construction of the world never fails; when the load of the
\* map fails (empty path, unreadable or unparsable file, width or height
\* not positive, a count of rows other than the height, a row of a length
\* other than the width, an unknown tile) the world is the built-in one:
\* 50 x 50 tiles, wall on the border and grass inside, a walkable spawn
\* point, one merchant NPC at (5, 5) and one live slime at (14, 12) with
\* hp = max_hp.
C27_MapFallback ==
    /\ worldOf(lim.doc).err = ""
    /\ DOMAIN mobs = DOMAIN worldOf(lim.doc).mobs
    /\ LoadFails(lim.doc) =>
          /\ IsBuiltIn(worldOf(lim.doc))
          /\ mobs["mob-slime-1"].Alive
          /\ mobs["mob-slime-1"].HP = mobs["mob-slime-1"].MaxHP
          /\ mobs["mob-slime-1"].X = 14000 /\ mobs["mob-slime-1"].Y = 12000

\* the service built on a file with a short row is started and has a
\* session; its world is the built-in one
C27_Witness ==
    /\ lim.doc = [StarterDoc EXCEPT !.Rows[3] = SubSeq(MapRows[3], 1, 6)]
    /\ started /\ "s1" \in clients
    /\ DOMAIN mobs = {"mob-slime-1"}

\* ------------------------------------------------------------------ SpecAuth
\* Calls of Register on an empty table users.  A password is the sequence
\* of its bytes.
MaxRegs == 2

Emails == {"player@example.com", " Player@Example.com ", "not-an-email", "@", "", "  "}

Passwords ==
    {<<>>,
     <<"s", "h", "o", "r", "t">>,
     <<"1", "2", "3", "4", "5", "6", "7">>,
     <<"1", "2", "3", "4", "5", "6", "7", "8">>,
     <<"s", "u", "p", "e", "r", "s", "e", "c", "u", "r", "e", "p", "a", "s", "s">>}

\* strings.ToLower on the emails of the runs
ToLower(str) ==
    CASE str = " Player@Example.com " -> " player@example.com "
      [] OTHER -> str

ErrInvalidCredentials == "invalid credentials"
ErrEmailInUse == "email already in use"

\* the outcomes of rand.Read in hashPassword and of the INSERT apart from
\* the unique constraint on users.email
CallOutcomes == {"ok", "error"}

\* what Register returns and the table it leaves
RegisterResult(users, email, password, salt, ins) ==
    LET e == TrimSpace(ToLower(email))
        id == Cardinality(users) + 1
    IN IF e = "" \/ Len(password) < 8
       THEN [users |-> users, reply |-> [err |-> ErrInvalidCredentials]]
       ELSE IF salt = "error"
       THEN [users |-> users, reply |-> [err |-> "hash password"]]
       ELSE IF \E u \in users : u.email = e
       THEN [users |-> users, reply |-> [err |-> ErrEmailInUse]]
       ELSE IF ins = "error"
       THEN [users |-> users, reply |-> [err |-> "insert user"]]
       ELSE [users |-> users \cup {[id |-> id, email |-> e,
                                    password_hash |-> <<"argon2id", password>>]},
             reply |-> [err |-> "", UserID |-> id,
                        Token |-> [sub |-> id, email |-> e]]]

Register(email, password) ==
    /\ authdb.n < MaxRegs
    /\ \E salt \in CallOutcomes, ins \in CallOutcomes :
          LET r == RegisterResult(authdb.users, email, password, salt, ins)
          IN authdb' = [users |-> r.users, n |-> authdb.n + 1,
                        call |-> <<"Register", email, password>>,
                        reply |-> r.reply]
    /\ UNCHANGED <<clients, charOf, players, heap, mobs, tick, started, quit, mu,
                   sendq, closed, wire, st, todo, ncmd, joins, loop, mainpc,
                   inflight, saved, panicked, diedAt, atStop, lim, chardb, wpump, charcalls>>

InitAuth ==
    InitWith(MobNearSpawn(40, 100),
             [cmds |-> 0, ticks |-> 0, pump |-> FALSE, calls |-> {<<>>}])

NextAuth == \E email \in Emails, password \in Passwords : Register(email, password)

SpecAuth == InitAuth /\ [][NextAuth]_vars

\* ------------------------------------------------------------------ C29
\* the emails of the runs that are well-formed addresses
WellFormedEmails == {"player@example.com", " Player@Example.com "}

\* no row is written and no token is issued
NothingWritten ==
    /\ authdb'.users = authdb.users
    /\ "Token" \notin DOMAIN authdb'.reply

\* C29: Register validates its input before it touches storage: an email
\* that is not a well-formed address is refused with an invalid-email
\* error, and a password of fewer than 8 characters with a well-formed
\* email is refused with a weak-password error; in both cases no row of
\* users is written and no token is issued.
C29_RegisterValidation ==
    [][\A email \in Emails, password \in Passwords :
          Register(email, password) /\ authdb'.call = <<"Register", email, password>> =>
             /\ email \notin WellFormedEmails =>
                   authdb'.reply.err = "invalid email" /\ NothingWritten
             /\ (email \in WellFormedEmails /\ Len(password) < 8) =>
                   authdb'.reply.err = "weak password" /\ NothingWritten]_vars

\* ------------------------------------------------------------------ C30
\* C30: the queue of a session is closed at most once, whatever the order
\* of Stop and of the unregister of the session: neither the close of
\* UnregisterClient nor the close of Stop finds the queue closed already;
\* in particular the unregister of a session whose queue and connection
\* Stop has closed does not close the queue again.
C30_ClosedAtMostOnce ==
    [][\A c \in Sessions : (CloseOwn(c) \/ CloseAll(c)) => ~closed[c]]_vars

\* ------------------------------------------------------------------ C31
\* no handler and no tick has anything left to run
AllIdle == \A p \in Procs : todo[p] = <<>>

\* the player_moved frames for the character id that are in a queue
MovedOf(q, id) == SelectSeq(q, LAMBDA f : f.type = "player_moved" /\ f.a = id)

\* the last player_moved frame a session has for a player tells where the
\* player is
LastMovedIsCurrent(c, id) ==
    LET fs == MovedOf(sendq[c], id)
    IN fs # <<>> =>
          /\ fs[Len(fs)].x = heap[players[id]].X
          /\ fs[Len(fs)].y = heap[players[id]].Y

\* C31: frames are enqueued in the order of the commits under the world
\* lock: when the attack of a tick has put a player on the spawn point and
\* a move of the player commits afterwards, the player_moved of the tick
\* is enqueued before the player_moved of the move, so that once every
\* handler is idle the last player_moved a session holds for a player
\* gives the position the player has.
C31_FrameOrderIsCommitOrder ==
    AllIdle =>
        \A c \in clients : \A id \in DOMAIN players :
            Len(sendq[c]) < SendCap => LastMovedIsCurrent(c, id)

\* ------------------------------------------------------------------ C32
\* the second critical section of an attack of c reports a death
ReportsDeath(c) ==
    PendingFrames(todo'[c]) =
        << <<"bcast", "mob_died">>, <<"bcast", "broadcast">>, <<"send", "player_update">> >>

\* C32: each transition of a mob from alive to dead yields one mob_died,
\* one notice of the defeat and one player_update, all of the attacker who
\* got the 25 experience, also when several players attack the mob at the
\* same time and no tick runs in between: an attack reports a death
\* exactly when its own second critical section took the mob from alive
\* to dead and granted the experience, and reports nothing otherwise.
C32_OneDeathOneReport ==
    [][\A c \in Sessions :
          AttackDeath(c) =>
             LET m == Head(todo[c]).arg.target
                 ref == Head(todo[c]).arg.pr
                 died == mobs[m].Alive /\ ~mobs'[m].Alive
             IN /\ died => (ReportsDeath(c) /\ heap'[ref].kills = heap[ref].kills + 1)
                /\ ~died => (PendingFrames(todo'[c]) = <<>> /\ heap' = heap)]_vars

\* ------------------------------------------------------------------ C33
\* C33: after the first join of a session the welcome is the first frame
\* enqueued for it: no broadcast of a tick or of another session's
\* command is enqueued for the joining session before its welcome.
C33_WelcomeFirst ==
    \A c \in Sessions :
        Got(c) # <<>> => (Got(c)[1].type = "welcome" /\ Got(c)[1].src = c)

\* ------------------------------------------------------------------ C34
\* the session has gone, its unregister has saved the position of its
\* player, no call of UpdatePosition for its character is running and none
\* has ended without writing
AllSaved(c) ==
    /\ st[c] = "gone" /\ saved[c] # <<>>
    /\ \A job \in inflight : job.char # charOf[c]
    /\ charOf[c] \notin chardb.lost

\* C34: once a joined session has unregistered and every call of
\* UpdatePosition made for its character, the one of each move and the
\* one of the unregister, has succeeded, the stored position is the last
\* position the player had in memory: the write of an earlier move never
\* replaces a later position.
C34_LastPositionWins ==
    \A c \in Sessions :
        AllSaved(c) =>
            LET last == saved[c][Len(saved[c])]
            IN chardb.rows[charOf[c]] = <<last.X, last.Y>>

\* ------------------------------------------------------------------ SpecTwin
\* Two connections of the account that owns c1: each joins with c1 and
\* may go away.
MaxCmdsTwin == 2

InitTwin ==
    InitWith(MobNearSpawn(40, 100),
             [cmds |-> MaxCmdsTwin, ticks |-> 0, pump |-> FALSE,
              calls |-> StartThenStop])

NextTwin ==
    \/ Micro
    \/ RegisterClient("s1")
    \/ (Settled("s1") /\ RegisterClient("s2"))
    \/ FirstJoins({<<"s1", "c1", <<3000, 2500>> >>, <<"s2", "c1", <<3000, 2500>> >>})
    \/ Leaves(Sessions)

SpecTwin == InitTwin /\ [][NextTwin]_vars

\* ------------------------------------------------------------------ C35
\* the session is registered, has a character id and runs no command
JoinedAndQuiet(c) == c \in clients /\ charOf[c] # Nil /\ st[c] = "open"

\* C35: a joined session keeps its player until it leaves: whenever no
\* command is running, every registered session with a character id has
\* a runtime for the character in the player table, and it is the runtime
\* of its own join: the join or the unregister of another session, one of
\* the same account with the same character id included, neither removes
\* nor replaces it.
C35_PlayerKept ==
    AllIdle =>
        \A c \in Sessions :
            JoinedAndQuiet(c) =>
                /\ charOf[c] \in DOMAIN players
                /\ heap[players[charOf[c]]].by = c

\* ------------------------------------------------------------------ C36
\* the players a mob may take for its target: hp > 0 and within 6.0
InAggro(mob) ==
    {k \in DOMAIN players :
        /\ heap[players[k]].HP > 0
        /\ Dist2(mob.X, mob.Y, heap[players[k]].X, heap[players[k]].Y) <= 6000 * 6000}

\* those of them at the least distance
Nearest(mob) ==
    {k \in InAggro(mob) : \A j \in InAggro(mob) :
        Dist2(mob.X, mob.Y, heap[players[k]].X, heap[players[k]].Y)
          <= Dist2(mob.X, mob.Y, heap[players[j]].X, heap[players[j]].Y)}

\* the mob may stand at (x, y): within its patrol radius of the spawn
\* point and walkable for the radius 0.2
MayStand(mob, x, y) ==
    /\ Dist2(mob.SpawnX, mob.SpawnY, x, y) <= mob.PatrolRadius * mob.PatrolRadius
    /\ isWalkableWithRadius(x, y, 200)

\* the position of the mob after a step by (dx, dy) that is taken only
\* where the mob may stand
StepOrStay(mob, dx, dy) ==
    IF MayStand(mob, mob.X + dx, mob.Y + dy)
    THEN <<mob.X + dx, mob.Y + dy>>
    ELSE <<mob.X, mob.Y>>

\* the mob is alive and has a target within 1.1
HasPrey(m) ==
    /\ mobs[m].Alive
    /\ \E t \in Nearest(mobs[m]) :
          Dist2(mobs[m].X, mobs[m].Y, heap[players[t]].X, heap[players[t]].Y)
            <= 1100 * 1100

\* the rule for one mob in one tick
MobStepRule(m) ==
    LET mob == mobs[m]
        new == mobs'[m]
    IN IF ~mob.Alive
       THEN <<new.X, new.Y>> = IF new.Alive THEN <<mob.SpawnX, mob.SpawnY>>
                               ELSE <<mob.X, mob.Y>>
       ELSE IF InAggro(mob) = {}
       THEN /\ mob.WanderTicksRemain > 0 =>
                  (new.WanderDX = mob.WanderDX /\ new.WanderDY = mob.WanderDY)
            /\ <<new.X, new.Y>> = StepOrStay(mob, new.WanderDX, new.WanderDY)
            /\ ~MayStand(mob, mob.X + new.WanderDX, mob.Y + new.WanderDY) =>
                  new.WanderTicksRemain = 0
       ELSE \E t \in Nearest(mob) :
               LET dx == heap[players[t]].X - mob.X
                   dy == heap[players[t]].Y - mob.Y
               IN IF dx * dx + dy * dy <= 1100 * 1100
                  THEN <<new.X, new.Y>> = <<mob.X, mob.Y>>
                  ELSE <<new.X, new.Y>> =
                          StepOrStay(mob, Quot(dx * 180, Hypot(dx, dy)),
                                     Quot(dy * 180, Hypot(dx, dy)))

\* a tick hurts a player only through a live mob that has it within 1.1,
\* and the only events of a tick without such a mob are respawn notices
OnlyPreyIsHurt ==
    (\A m \in DOMAIN mobs : ~HasPrey(m)) =>
        /\ heap' = heap
        /\ \A i \in DOMAIN EventsOf(todo'[TickProc]) :
              /\ EventsOf(todo'[TickProc])[i][1] = "broadcast"
              /\ ~mobs[EventsOf(todo'[TickProc])[i][2]].Alive

MaxCmdsPump == 2
MaxPings == 1

\* how Conn.WriteMessage ends
WriteOutcomes == {"ok", "error"}

\* the messages of the pump that are no frames of the queue
CloseMessage == [type |-> "close"]
PingMessage == [type |-> "ping"]

\* a pump that writes the frame at the head of the queue and leaves it
\* there
PumpWriteTwice(c, outcome) ==
    /\ ~crashed /\ wpump[c] = "run" /\ sendq[c] # <<>>
    /\ Len(wire[c]) < Len(sendq[c]) + 2
    /\ IF outcome = "ok"
       THEN /\ wire' = [wire EXCEPT ![c] = Append(wire[c], Head(sendq[c]))]
            /\ sendq' = IF Len(wire[c]) % 2 = 1
                        THEN [sendq EXCEPT ![c] = Tail(sendq[c])] ELSE sendq
            /\ UNCHANGED wpump
       ELSE /\ wpump' = [wpump EXCEPT ![c] = "failed"]
            /\ sendq' = [sendq EXCEPT ![c] = Tail(sendq[c])]
            /\ UNCHANGED wire
    /\ UNCHANGED <<clients, charOf, players, heap, mobs, tick, started, quit, mu,
                   closed, st, todo, ncmd, joins, loop, mainpc, inflight, saved,
                   panicked, diedAt, atStop, lim, authdb, chardb, charcalls>>

\* writePump, lines 309-317: a frame is received from Client.Send and
\* written; the pump returns when the write fails
PumpWrite(c, outcome) ==
    /\ ~crashed /\ wpump[c] = "run" /\ sendq[c] # <<>>
    /\ sendq' = [sendq EXCEPT ![c] = Tail(sendq[c])]
    /\ IF outcome = "ok"
       THEN /\ wire' = [wire EXCEPT ![c] = Append(wire[c], Head(sendq[c]))]
            /\ UNCHANGED wpump
       ELSE /\ wpump' = [wpump EXCEPT ![c] = "failed"]
            /\ UNCHANGED wire
    /\ UNCHANGED <<clients, charOf, players, heap, mobs, tick, started, quit, mu,
                   closed, st, todo, ncmd, joins, loop, mainpc, inflight, saved,
                   panicked, diedAt, atStop, lim, authdb, chardb, charcalls>>

\* writePump, lines 310-313: the receive from the closed and empty queue;
\* the close message is written, the result of the write is dropped, and
\* the pump returns
PumpClose(c, outcome) ==
    /\ ~crashed /\ wpump[c] = "run" /\ sendq[c] = <<>> /\ closed[c]
    /\ wire' = IF outcome = "ok" THEN [wire EXCEPT ![c] = Append(wire[c], CloseMessage)]
               ELSE wire
    /\ wpump' = [wpump EXCEPT ![c] = "closed"]
    /\ UNCHANGED <<clients, charOf, players, heap, mobs, tick, started, quit, mu, sendq,
                   closed, st, todo, ncmd, joins, loop, mainpc, inflight, saved,
                   panicked, diedAt, atStop, lim, authdb, chardb, charcalls>>

\* writePump, lines 318-322: the ticker fires and a ping is written; the
\* pump returns when the write fails
PumpPing(c, outcome) ==
    /\ ~crashed /\ wpump[c] = "run"
    /\ Len(SelectSeq(wire[c], LAMBDA f : f.type = "ping")) < MaxPings
    /\ IF outcome = "ok"
       THEN /\ wire' = [wire EXCEPT ![c] = Append(wire[c], PingMessage)]
            /\ UNCHANGED wpump
       ELSE /\ wpump' = [wpump EXCEPT ![c] = "failed"]
            /\ UNCHANGED wire
    /\ UNCHANGED <<clients, charOf, players, heap, mobs, tick, started, quit, mu, sendq,
                   closed, st, todo, ncmd, joins, loop, mainpc, inflight, saved,
                   panicked, diedAt, atStop, lim, authdb, chardb, charcalls>>

\* one turn of the loop of writePump
writePump(c) ==
    \E outcome \in WriteOutcomes :
        PumpWrite(c, outcome) \/ PumpClose(c, outcome) \/ PumpPing(c, outcome)

InitPump ==
    InitWith(MobNearSpawn(40, 100),
             [cmds |-> MaxCmdsPump, ticks |-> 0, pump |-> FALSE,
              calls |-> StartThenStop])

NextPump ==
    \/ Micro
    \/ RegisterClient("s1")
    \/ FirstJoins({<<"s1", "c1", <<3000, 2500>> >>})
    \/ Moves({<<"s1", <<-1000, 0>> >>})
    \/ Leaves({"s1"})
    \/ writePump("s1")

\* the goroutine of a pump is scheduled again and again, and each of its
\* writes returns within the write deadline
SpecPump ==
    InitPump /\ [][NextPump]_vars /\ WF_vars(writePump("s1"))

\* ------------------------------------------------------------------ C37
\* what the pump of c does to the connection and to the queue in a step
PumpStep(c) ==
    /\ wire'[c] # wire[c] =>
          /\ wpump[c] = "run"
          /\ \/ /\ sendq[c] # <<>>
                /\ wire'[c] = Append(wire[c], Head(sendq[c]))
                /\ sendq'[c] = Tail(sendq[c])
                /\ wpump'[c] = "run"
             \/ /\ wire'[c] = Append(wire[c], PingMessage)
                /\ sendq'[c] = sendq[c]
             \/ /\ wire'[c] = Append(wire[c], CloseMessage)
                /\ closed[c] /\ sendq[c] = <<>>
                /\ wpump'[c] = "closed"
    /\ (wpump[c] = "run" /\ wpump'[c] = "closed") => (closed[c] /\ sendq[c] = <<>>)
    /\ wpump[c] \in {"closed", "failed"} => (wpump'[c] = wpump[c] /\ wire'[c] = wire[c])
    /\ \/ sendq'[c] = sendq[c]
       \/ sendq[c] # <<>> /\ sendq'[c] = Tail(sendq[c]) /\ wpump[c] = "run"
       \/ \E f \in {Head(todo[p]).f : p \in {q \in Procs : todo[q] # <<>>}} :
             sendq'[c] = Append(sendq[c], f)

\* no frame is on the connection twice
WrittenOnce(c) ==
    \A i, j \in DOMAIN wire[c] :
        (i # j /\ wire[c][i].type \notin {"ping", "close"}) => wire[c][i] # wire[c][j]

\* C37: the pump of a session writes the frames it takes from the queue
\* one message per frame, in the order they were enqueued, none twice;
\* when the queue is closed it writes a close message and returns; after
\* the first write that fails it returns and writes nothing more.
C37_WriterPump ==
    /\ [](\A c \in Sessions : WrittenOnce(c))
    /\ [][\A c \in Sessions : PumpStep(c)]_vars
    /\ \A c \in Sessions : (closed[c] ~> wpump[c] \in {"closed", "failed"})

\* the pump of s1 has written the frames of its join and, the queue
\* closed, the close message
C37_Witness ==
    /\ wpump["s1"] = "closed"
    /\ Len(wire["s1"]) >= 3
    /\ wire["s1"][1].type = "welcome"
    /\ wire["s1"][Len(wire["s1"])] = CloseMessage

\* ------------------------------------------------------------------ C38
\* the step in which a goroutine of the tick loop takes the lock of the
\* world: the critical section of tickWorld
TickStep == \E p \in TickProcs : mu.w # p /\ mu'.w = p

\* C38: the tick counter starts at 0, grows by exactly 1 in every tick,
\* and no other step (register, unregister, join, move, attack, Stop, or
\* any part of a broadcast) changes it.
C38_TickCounter ==
    /\ tick = 0
    /\ [][IF TickStep THEN tick' = tick + 1 ELSE tick' = tick]_vars

\* ticks have been counted, a session has joined, and Stop has closed the
\* quit channel
C38_Witness ==
    /\ tick > 0
    /\ quit
    /\ joins["s1"] > 0

\* ------------------------------------------------------------------ C39
\* what NewService gives a mob for good: its spawn point, max_hp, damage
\* and patrol radius (the id is the key of the mob in s.mobs; the tile
\* grid, the spawn point of the map and the NPCs are the definitions
\* MapRows, MapSpawn and the world of loadWorldMap, which no action writes)
StaticOf(mob) == <<mob.SpawnX, mob.SpawnY, mob.MaxHP, mob.Damage, mob.PatrolRadius>>

\* C39: no step of join, move, attack, tick, unregister or Stop changes
\* the set of mob ids or the spawn point, max_hp, damage or patrol radius
\* of a mob.
C39_StaticWorld ==
    [][/\ DOMAIN mobs' = DOMAIN mobs
       /\ \A m \in DOMAIN mobs : StaticOf(mobs'[m]) = StaticOf(mobs[m])]_vars

\* the mob has wandered off its spawn point and was then killed, a tick
\* has run, and Stop has closed the quit channel
C39_Witness ==
    /\ <<mobs["m1"].X, mobs["m1"].Y>> # <<mobs["m1"].SpawnX, mobs["m1"].SpawnY>>
    /\ ~mobs["m1"].Alive
    /\ mobs["m1"].HP < mobs["m1"].MaxHP
    /\ tick > 0
    /\ quit

\* ------------------------------------------------------------------ SpecCache
\* The character service under concurrent calls: two callers of
\* ListByUser, Create, UpdatePosition, and the expiry of a cache key.
MaxLists == 3
MaxCreates == 1

\* the character service holds no field of the world service
WorldIdle ==
    UNCHANGED <<clients, charOf, players, heap, mobs, tick, started, quit, mu, sendq,
                closed, wire, st, todo, ncmd, joins, loop, mainpc, inflight, saved,
                panicked, diedAt, atStop, lim, authdb, wpump>>

\* json.Marshal and json.Unmarshal of a list of characters
Marshal(chars) == [json |-> chars]
Unmarshal(b) == b.json

\* ListByUser, lines 59-68: the call starts and reads the cache key; a hit
\* is decoded and returned
ListGet(k, u) ==
    /\ charcalls.list[k].pc \in {"idle", "done"}
    /\ charcalls.n < MaxLists
    /\ charcalls' =
         [charcalls EXCEPT
            !.n = @ + 1,
            !.list[k] =
               IF chardb.cache[u] # <<>>
               THEN [pc |-> "done", u |-> u, from |-> charcalls.retv[u],
                     result |-> Unmarshal(chardb.cache[u][1])]
               ELSE [pc |-> "query", u |-> u, from |-> charcalls.retv[u]]]
    /\ UNCHANGED chardb
    /\ WorldIdle

\* ListByUser, lines 70-88: the SELECT
ListQuery(k) ==
    /\ charcalls.list[k].pc = "query"
    /\ charcalls' =
         [charcalls EXCEPT
            !.list[k] = [charcalls.list[k] EXCEPT !.pc = "set"] @@
                        [read |-> ListOf(chardb, charcalls.list[k].u)]]
    /\ UNCHANGED chardb
    /\ WorldIdle

\* ListByUser, lines 89-94: the list is written to the cache key (the
\* error of Set is dropped) and returned
ListSet(k, outcome) ==
    /\ charcalls.list[k].pc = "set"
    /\ chardb' = IF outcome = "ok"
                 THEN [chardb EXCEPT !.cache[charcalls.list[k].u] =
                                        <<Marshal(charcalls.list[k].read)>>]
                 ELSE chardb
    /\ charcalls' =
         [charcalls EXCEPT
            !.list[k] = [pc |-> "done", u |-> charcalls.list[k].u,
                         from |-> charcalls.list[k].from,
                         result |-> charcalls.list[k].read]]
    /\ WorldIdle

ListByUser(k, u) ==
    \/ ListGet(k, u)
    \/ ListQuery(k)
    \/ \E outcome \in DbOutcomes : ListSet(k, outcome)

\* Create, lines 35-50: the name is trimmed and refused when empty; else
\* the row is inserted
CreateInsert(u, name) ==
    /\ charcalls.create.pc \in {"idle", "refused"}
    /\ Len(chardb.made) < MaxCreates
    /\ IF TrimSpace(name) = ""
       THEN /\ charcalls' = [charcalls EXCEPT !.create = [pc |-> "refused"]]
            /\ UNCHANGED chardb
       ELSE LET row == [ID |-> NewIDs[Len(chardb.made) + 1], UserID |-> u,
                        Name |-> TrimSpace(name)]
                db == [chardb EXCEPT !.made = Append(@, row)]
            IN /\ chardb' = db
               /\ charcalls' =
                    [charcalls EXCEPT
                       !.hist[u] = Append(@, ListOf(db, u)),
                       !.create = [pc |-> "del", u |-> u,
                                   v |-> Len(charcalls.hist[u]) + 1]]
    /\ WorldIdle

\* Create, lines 52-55: invalidateCharacterList, and the call returns
CreateInvalidate ==
    /\ charcalls.create.pc = "del"
    /\ chardb' = [chardb EXCEPT !.cache[charcalls.create.u] = <<>>]
    /\ charcalls' =
         [charcalls EXCEPT
            !.retv[charcalls.create.u] =
               IF charcalls.create.v > @ THEN charcalls.create.v ELSE @,
            !.create = [pc |-> "idle"]]
    /\ WorldIdle

Create(u, name) == CreateInsert(u, name) \/ CreateInvalidate

\* a call of UpdatePosition from its first statement to its return: no
\* row matches when the character is of another user (ErrForbidden)
UpdateCall(u, id, x, y) ==
    /\ chardb.rows[id] # <<x, y>>
    /\ CharacterRows[id].UserID = u
    /\ chardb' = UpdatePosition([char |-> id, X |-> x, Y |-> y], "ok")
    /\ charcalls' =
         [charcalls EXCEPT
            !.hist[u] = Append(@, ListOf(chardb', u)),
            !.retv[u] = Len(charcalls.hist[u]) + 1]
    /\ WorldIdle

\* the TTL of a cache key runs out
Expire(u) ==
    /\ chardb.cache[u] # <<>>
    /\ chardb' = [chardb EXCEPT !.cache[u] = <<>>]
    /\ UNCHANGED charcalls
    /\ WorldIdle

InitCache ==
    InitWith(MobNearSpawn(40, 100),
             [cmds |-> 0, ticks |-> 0, pump |-> FALSE, calls |-> {<<>>}])

NextCache ==
    \/ \E k \in ListCallers, u \in Accounts : ListByUser(k, u)
    \/ \E u \in Accounts, name \in {" ", "Bob"} : Create(u, name)
    \/ UpdateCall("a1", "c1", 2000, 2500)
    \/ \E u \in Accounts : Expire(u)

SpecCache == InitCache /\ [][NextCache]_vars

\* ------------------------------------------------------------------ C40
\* the call of k has returned a list, and it started after a mutation of
\* the rows of its user had returned
ListedAfterWrite(k) ==
    /\ charcalls.list[k].pc = "done"
    /\ charcalls.list[k].from > 0

\* the list k has returned is one the table has held since the last
\* mutation that had returned when the call started
PostMutation(k) ==
    LET call == charcalls.list[k]
    IN \E i \in call.from .. Len(charcalls.hist[call.u]) :
          charcalls.hist[call.u][i] = call.result

\* C40: a ListByUser that starts after Create or UpdatePosition has
\* returned for its user returns a list that holds the mutation, whatever
\* other ListByUser of that user ran beside the mutation.
C40_CacheFreshness ==
    \A k \in ListCallers : ListedAfterWrite(k) => PostMutation(k)

=============================================================================
